---- MODULE Spec2Model ----
(***************************************************************************)
(* A model of the Agora <-> AT Protocol bridge (agora_at): the             *)
(* ProtocolBridge orchestrator of core/bridge.py, the two adapters of      *)
(* adapters/ and the pydantic models of core/models.py.                    *)
(*                                                                         *)
(* Python values are written by their repr ("{}", "[1, 2]", "(1, 2)"),     *)
(* JSON documents by their text; None is the record None.                  *)
(***************************************************************************)
EXTENDS Naturals, Sequences, FiniteSets, TLC

VARIABLES
    protocol_handlers,  \* ProtocolBridge.protocol_handlers: an insertion-ordered dict
    protocols_file,     \* the content of <config_dir>/protocols.json
    callbacks,          \* ProtocolBridge.callbacks: event kind -> list of callbacks
    call,               \* the public call made last: its name, arguments and outcome
    log,                \* what that call did, in order: saves, events, callbacks, requests
    built,              \* the result of the last BridgeMessage(...) construction
    capabilities,       \* atproto_agent.capabilities
    session,            \* ATProtoAdapter.session
    agora_protocols,    \* AgoraAdapter.protocols: protocol id -> protocol
    agora_protocols_file, \* the content of <config_dir>/agora_protocols_<agent>.json
    session_file,       \* the content of <config_dir>/atproto_session_<agent>.json
    agent,              \* the two Agents the running instance was constructed for
    config_dir          \* the adapter files of config_dir by path; the two files of the
                        \* running instance are agora_protocols_file and session_file

vars == <<protocol_handlers, protocols_file, callbacks, call, log, built,
          capabilities, session, agora_protocols, agora_protocols_file,
          session_file, agent, config_dir>>

\* the state of the two adapters
adapterVars == <<capabilities, session, agora_protocols, agora_protocols_file,
                 session_file, agent, config_dir>>

---------------------------------------------------------------------------
\* Bounds of the model

\* on() appends without limit; the model registers at most this many callbacks
MaxCallbacks == 2

---------------------------------------------------------------------------
\* Values

None == [none |-> "None"]

\* Logical message types (non-empty strings); NoType is a falsy message_type
\* ("" or None), which the code reads as "no message type".
MsgTypes == {"post", "process_feed"}
NoType == ""

\* Python values a caller can pass as NegotiatedProtocol.schema (schema: Any)
PyDict == "{}"
PyList == "[1, 2]"
PyTuple == "(1, 2)"
PySet == "{1, 2}"
Schemas == {PyDict, PyList, PyTuple, PySet}
\* the Python values that are what json.load returns for some JSON text
JsonValues == {PyDict, PyList}

Proto(id, version, description, schema) ==
    [id |-> id, version |-> version, description |-> description, schema |-> schema]

ProtoA == Proto("p1", "1.0", "D", PyDict)
ProtoB == Proto("p2", "2.0", "E", PyList)
ProtoT == Proto("p2", "2.0", "E", PyTuple)
ProtoS == Proto("p3", "1.0", "D", PySet)
Protocols == {ProtoA, ProtoB, ProtoT, ProtoS}

EventKinds == {"on_message", "on_post", "on_protocol_negotiated", "on_error"}
UnknownKind == "on_bogus"
\* The callbacks a caller registers: "A" raises whenever it is invoked, "B" returns.
CallbackIds == {"A", "B"}
Raising == {"A"}

\* AgentCapability
ReadPublic == "read:public"
WritePosts == "write:posts"
GenerateFeeds == "generate:feeds"
ModerateContent == "moderate:content"
InteractUsers == "interact:users"

\* Strings a caller can pass as the source or target of a BridgeMessage
Sides == {"agora", "atproto"}
SideInputs == Sides \cup {"agora\n", "Agora", ""}

\* Message contents (dicts): requests the AT-side adapter knows by their "type",
\* a dict of another type, and a dict without "type"
PostPayload == [type |-> "post", text |-> "hello"]
FeedPayload == [type |-> "get_feed", algorithm |-> "reverse-chronological"]
ProfilePayload == [type |-> "get_profile", actor |-> "alice"]
SearchPayload == [type |-> "search_posts", query |-> "q"]
TaskPayload == [type |-> "process_feed", task_description |-> "summarize"]
PlainPayload == [x |-> "1"]
Payloads == {PostPayload, FeedPayload, ProfilePayload, SearchPayload, TaskPayload,
             PlainPayload}

\* dict.get(key, default) on a content dict
Get(content, key, default) == IF key \in DOMAIN content THEN content[key] ELSE default

\* datetime.utcnow().isoformat(): the model has one instant
Timestamp == "2025-01-01T00:00:00"

---------------------------------------------------------------------------
\* Python's insertion-ordered dict, as a sequence of [key, val] without repeated keys

Keys(d) == {d[i].key : i \in DOMAIN d}

Items(d) == {d[i] : i \in DOMAIN d}

DictGet(d, k) ==
    IF k \in Keys(d) THEN (CHOOSE e \in Items(d) : e.key = k).val ELSE None

\* mutant: an existing key keeps its value (dict.setdefault)
DictSetKeepsExisting(d, k, v) ==
    IF k \in Keys(d) THEN d ELSE Append(d, [key |-> k, val |-> v])

DictSet(d, k, v) ==
    IF k \in Keys(d)
    THEN [i \in DOMAIN d |-> IF d[i].key = k THEN [key |-> k, val |-> v] ELSE d[i]]
    ELSE Append(d, [key |-> k, val |-> v])

---------------------------------------------------------------------------
\* json.dump / json.load

JsonFail == "TypeError"

\* json.dumps of a schema value: a tuple is written as a list, a set is not serializable
JsonDumps(v) ==
    CASE v = PyDict -> "{}"
      [] v = PyList -> "[1, 2]"
      [] v = PyTuple -> "[1, 2]"
      [] OTHER -> JsonFail

\* json.loads of a JSON text
JsonLoads(text) ==
    CASE text = "{}" -> PyDict
      [] text = "[1, 2]" -> PyList

FileMissing == [state |-> "missing"]
\* a file that is not one JSON document (a write cut short, for instance)
FileInvalid == [state |-> "invalid"]
FileJson(entries) == [state |-> "json", entries |-> entries]

RecordFields == {"id", "version", "description", "schema"}

\* what _save_protocols writes for one protocol (stats is not written)
ToRecord(p) ==
    [id |-> p.id, version |-> p.version, description |-> p.description,
     schema |-> JsonDumps(p.schema)]

\* mutant: the description is read from the wrong key
FromRecordWrongKey(r) == Proto(r.id, r.version, r.id, JsonLoads(r.schema))

\* the NegotiatedProtocol _load_protocols builds from one stored record
FromRecord(r) == Proto(r.id, r.version, r.description, JsonLoads(r.schema))

\* _save_protocols: open(path, 'w') truncates the file and json.dump writes the whole
\* mapping in dict order; a value json cannot encode raises in the middle of the
\* write, the error is logged, and what is left is no JSON document.
SaveProtocols(h) ==
    IF \E i \in DOMAIN h : JsonDumps(h[i].val.schema) = JsonFail
    THEN FileInvalid
    ELSE FileJson([i \in DOMAIN h |-> [key |-> h[i].key, val |-> ToRecord(h[i].val)]])

\* the loop of _load_protocols from entry i on: protocol["id"] of a record without
\* that key raises KeyError, which leaves the loop (the try encloses the loop)
RECURSIVE LoadEntries(_, _, _)
LoadEntries(entries, i, acc) ==
    IF i > Len(entries) THEN acc
    ELSE IF RecordFields \subseteq DOMAIN entries[i].val
         THEN LoadEntries(entries, i + 1,
                          DictSet(acc, entries[i].key, FromRecord(entries[i].val)))
         ELSE acc

\* _load_protocols into the empty protocol_handlers of __init__
LoadProtocols(f) ==
    IF f.state = "json" THEN LoadEntries(f.entries, 1, <<>>) ELSE <<>>

\* what AgoraAdapter._save_protocols writes for one protocol, under its id
AgoraToRecord(p) ==
    [version |-> p.version, description |-> p.description, schema |-> JsonDumps(p.schema)]

\* AgoraAdapter._save_protocols: the whole cache, keyed by protocol id
AgoraSaveProtocols(d) ==
    IF \E i \in DOMAIN d : JsonDumps(d[i].val.schema) = JsonFail
    THEN FileInvalid
    ELSE FileJson([i \in DOMAIN d |-> [key |-> d[i].key, val |-> AgoraToRecord(d[i].val)]])

\* AgoraAdapter._load_protocols into the empty cache of __init__: a key a record
\* lacks gets its default
AgoraLoadProtocols(f) ==
    IF f.state = "json"
    THEN [i \in DOMAIN f.entries |->
            [key |-> f.entries[i].key,
             val |-> Proto(f.entries[i].key,
                           Get(f.entries[i].val, "version", "1.0"),
                           Get(f.entries[i].val, "description", ""),
                           IF "schema" \in DOMAIN f.entries[i].val
                           THEN JsonLoads(f.entries[i].val.schema) ELSE PyDict)]]
    ELSE <<>>

---------------------------------------------------------------------------
\* The session of the AT-side adapter and its file

\* the empty dict {}
EmptyDict == [empty |-> "{}"]

\* the truth value of a session: None and {} are falsy
Truthy(v) == v # None /\ v # EmptyDict

\* `key in d` for a dict
HasKey(d, key) == d # EmptyDict /\ key \in DOMAIN d

Session1 == [did |-> "did:plc:user", accessJwt |-> "access1", refreshJwt |-> "refresh1"]

SessionFile(v) == [state |-> "json", value |-> v]

\* ATProtoAdapter._load_session into the session None of __init__
LoadSession(f) == IF f.state = "json" THEN f.value ELSE None

\* ATProtoAdapter._save_session: a falsy session is not written
SaveSession(v, f) == IF Truthy(v) THEN SessionFile(v) ELSE f

---------------------------------------------------------------------------
\* Agent identities and the paths of the files kept for them

\* a DID by its segments (did.split(":")); the last one by its characters
Own == [agora |-> <<"did", "web", <<"a", ".", "x">>>>,
        atproto |-> <<"did", "plc", <<"u", "1">>>>]
\* agents whose DIDs share nothing with those of Own
Other == [agora |-> <<"did", "web", <<"b", ".", "x">>>>,
          atproto |-> <<"did", "plc", <<"u", "2">>>>]
\* agents with other DIDs whose last segments read like those of Own
Alike == [agora |-> <<"did", "plc", <<"a", "_", "x">>>>,
          atproto |-> <<"did", "web", <<"u", "1">>>>]
Identities == {Own, Other, Alike}

\* agent.did.split(":")[-1].replace(".", "_")
AgentId(did) ==
    [i \in DOMAIN did[Len(did)] |->
        IF did[Len(did)][i] = "." THEN "_" ELSE did[Len(did)][i]]

\* ProtocolBridge._load_protocols / _save_protocols: the path names no agent
ProtocolsPath(a) == <<"protocols.json">>
\* AgoraAdapter._get_protocols_path
AgoraProtocolsPath(a) == <<"agora_protocols_", AgentId(a.agora), ".json">>
\* ATProtoAdapter._get_session_path
SessionPath(a) == <<"atproto_session_", AgentId(a.atproto), ".json">>

AdapterPaths == {AgoraProtocolsPath(a) : a \in Identities}
                \cup {SessionPath(a) : a \in Identities}

EmptyDir == [p \in AdapterPaths |-> FileMissing]

---------------------------------------------------------------------------
\* Events

NoCallbacks == [k \in EventKinds |-> <<>>]

TotalCallbacks == Len(callbacks["on_message"]) + Len(callbacks["on_post"])
                  + Len(callbacks["on_protocol_negotiated"]) + Len(callbacks["on_error"])

\* mutant: the try encloses the loop, so that the first callback that raises ends it
TriggerCallbacksUntilRaise(event_type, data) ==
    IF event_type \in DOMAIN callbacks
    THEN <<[ev |-> "emit", kind |-> event_type, data |-> data]>>
         \o [i \in {j \in 1..Len(callbacks[event_type]) :
                      \A k \in 1..(j - 1) : callbacks[event_type][k] \notin Raising} |->
               [ev |-> "callback", kind |-> event_type, cb |-> callbacks[event_type][i],
                data |-> data,
                outcome |-> IF callbacks[event_type][i] \in Raising
                            THEN "raised" ELSE "returned"]]
    ELSE <<>>

\* _trigger_callbacks: every callback of the kind, in list order; an exception of
\* a callback is caught and logged inside the loop
TriggerCallbacks(event_type, data) ==
    IF event_type \in DOMAIN callbacks
    THEN <<[ev |-> "emit", kind |-> event_type, data |-> data]>>
         \o [i \in 1..Len(callbacks[event_type]) |->
               [ev |-> "callback", kind |-> event_type, cb |-> callbacks[event_type][i],
                data |-> data,
                outcome |-> IF callbacks[event_type][i] \in Raising
                            THEN "raised" ELSE "returned"]]
    ELSE <<>>

\* mutant: a callback for a kind that is not known is kept with those of on_message
OnCatchAll(event_type, callback) ==
    /\ TotalCallbacks < MaxCallbacks
    /\ callbacks' = IF event_type \in DOMAIN callbacks
                    THEN [callbacks EXCEPT ![event_type] = Append(@, callback)]
                    ELSE [callbacks EXCEPT !["on_message"] = Append(@, callback)]
    /\ call' = [op |-> "on", pc |-> "returned", event_type |-> event_type,
                callback |-> callback]
    /\ log' = <<>>
    /\ UNCHANGED <<protocol_handlers, protocols_file, built, adapterVars>>

\* ProtocolBridge.on
On(event_type, callback) ==
    /\ TotalCallbacks < MaxCallbacks
    /\ callbacks' = IF event_type \in DOMAIN callbacks
                    THEN [callbacks EXCEPT ![event_type] = Append(@, callback)]
                    ELSE callbacks
    /\ call' = [op |-> "on", pc |-> "returned", event_type |-> event_type,
                callback |-> callback]
    /\ log' = <<>>
    /\ UNCHANGED <<protocol_handlers, protocols_file, built, adapterVars>>

---------------------------------------------------------------------------
\* The Registry

\* mutant: a message type without a mapping falls back to the first protocol registered
LookupOrFirst(h, message_type) ==
    IF message_type # NoType /\ message_type \in Keys(h) THEN DictGet(h, message_type)
    ELSE IF h = <<>> THEN None ELSE h[1].val

\* the lookup of send_to_agora / send_to_atproto:
\* self.protocol_handlers.get(message_type) if message_type else None
Lookup(h, message_type) ==
    IF message_type = NoType THEN None ELSE DictGet(h, message_type)

\* mutant: a registration withdraws the mappings of the other message types
RegisterProtocolExclusive(message_type, protocol) ==
    LET h1 == <<[key |-> message_type, val |-> protocol]>>
        f1 == SaveProtocols(h1)
    IN /\ protocol_handlers' = h1
       /\ protocols_file' = f1
       /\ log' = <<[ev |-> "save", written |-> f1.state]>>
                 \o TriggerCallbacks("on_protocol_negotiated",
                                     [message_type |-> message_type, protocol |-> protocol])
       /\ call' = [op |-> "register_protocol", pc |-> "returned",
                   message_type |-> message_type, protocol |-> protocol,
                   had |-> DictGet(protocol_handlers, message_type)]
       /\ UNCHANGED <<callbacks, built, adapterVars>>

\* mutant: the mapping is written to disk before it is updated
RegisterProtocolSavesFirst(message_type, protocol) ==
    LET h1 == DictSet(protocol_handlers, message_type, protocol)
        f1 == SaveProtocols(protocol_handlers)
    IN /\ protocol_handlers' = h1
       /\ protocols_file' = f1
       /\ log' = <<[ev |-> "save", written |-> f1.state]>>
                 \o TriggerCallbacks("on_protocol_negotiated",
                                     [message_type |-> message_type, protocol |-> protocol])
       /\ call' = [op |-> "register_protocol", pc |-> "returned",
                   message_type |-> message_type, protocol |-> protocol,
                   had |-> DictGet(protocol_handlers, message_type)]
       /\ UNCHANGED <<callbacks, built, adapterVars>>

\* ProtocolBridge.register_protocol
RegisterProtocol(message_type, protocol) ==
    LET h1 == DictSet(protocol_handlers, message_type, protocol)
        f1 == SaveProtocols(h1)
    IN /\ protocol_handlers' = h1
       /\ protocols_file' = f1
       /\ log' = <<[ev |-> "save", written |-> f1.state]>>
                 \o TriggerCallbacks("on_protocol_negotiated",
                                     [message_type |-> message_type, protocol |-> protocol])
       /\ call' = [op |-> "register_protocol", pc |-> "returned",
                   message_type |-> message_type, protocol |-> protocol,
                   had |-> DictGet(protocol_handlers, message_type)]
       /\ UNCHANGED <<callbacks, built, adapterVars>>

\* ProtocolBridge.__init__ of a fresh process on the same config_dir: the
\* adapters are constructed (AgoraAdapter loads its cache), then the mapping is loaded
Construct ==
    /\ agora_protocols' = AgoraLoadProtocols(agora_protocols_file)
    /\ protocol_handlers' = LoadProtocols(protocols_file)
    /\ callbacks' = NoCallbacks
    /\ call' = [op |-> "construct", pc |-> "returned", after |-> call.op]
    /\ log' = <<>>
    /\ session' = LoadSession(session_file)
    /\ UNCHANGED <<protocols_file, built, capabilities, agora_protocols_file,
                   session_file, agent, config_dir>>

\* What protocols.json can hold when a process starts: nothing, no JSON document,
\* or a JSON object whose records are complete or lack a key.
CorruptNoId == [version |-> "1.0", description |-> "D", schema |-> "{}"]
CorruptNoSchema == [id |-> "p2", version |-> "2.0", description |-> "E"]
StoredRecords == {ToRecord(ProtoA), ToRecord(ProtoB), CorruptNoId, CorruptNoSchema}

EntrySeqs ==
    {<<>>}
    \cup {<<[key |-> k, val |-> r]>> : k \in MsgTypes, r \in StoredRecords}
    \cup {<<[key |-> k1, val |-> r1], [key |-> k2, val |-> r2]>> :
            <<k1, k2>> \in {kk \in MsgTypes \X MsgTypes : kk[1] # kk[2]},
            <<r1, r2>> \in StoredRecords \X StoredRecords}

InitialFiles == {FileMissing, FileInvalid} \cup {FileJson(e) : e \in EntrySeqs}

InitRegistry ==
    /\ protocols_file \in InitialFiles
    /\ protocol_handlers = LoadProtocols(protocols_file)
    /\ callbacks = NoCallbacks
    /\ call = [op |-> "construct", pc |-> "returned", after |-> "none"]
    /\ log = <<>>
    /\ built = None
    /\ capabilities = {ReadPublic, WritePosts}
    /\ agent = Own
    /\ config_dir = EmptyDir
    /\ session_file = FileMissing
    /\ session = LoadSession(session_file)
    /\ agora_protocols_file = FileMissing
    /\ agora_protocols = AgoraLoadProtocols(agora_protocols_file)

NextRegistry ==
    \/ \E k \in EventKinds \cup {UnknownKind}, c \in CallbackIds : On(k, c)
    \/ \E t \in MsgTypes, p \in Protocols : RegisterProtocol(t, p)
    \/ Construct

SpecRegistry == InitRegistry /\ [][NextRegistry]_vars

---------------------------------------------------------------------------
\* Properties of the Registry (checked under SpecRegistry)

\* the positions of the log whose event is ev
Positions(l, ev) == {i \in DOMAIN l : l[i].ev = ev}

\* every stored record of f is complete and f holds exactly the mapping h:
\* same keys, and for each the same id, version, description and schema
PersistedEquals(f, h) ==
    /\ f.state = "json"
    /\ {e.key : e \in Items(f.entries)} = Keys(h)
    /\ \A e \in Items(f.entries) :
         /\ RecordFields \subseteq DOMAIN e.val
         /\ FromRecord(e.val) = DictGet(h, e.key)

AllJsonSchemas(h) == \A e \in Items(h) : e.val.schema \in JsonValues

\* C1: right after register_protocol(t, P) the lookup of t yields exactly P,
\* whatever t was mapped to before (last-write-wins), and the lookup of every
\* other message type yields what it yielded before the call.
C1_RegisterThenLookup ==
    [][call'.op = "register_protocol" =>
         /\ Lookup(protocol_handlers', call'.message_type) = call'.protocol
         /\ \A u \in MsgTypes \ {call'.message_type} :
              Lookup(protocol_handlers', u) = Lookup(protocol_handlers, u)]_vars

C1_Witness ==
    /\ call.op = "register_protocol"
    /\ call.had \in Protocols \ {call.protocol}
    /\ Lookup(protocol_handlers, call.message_type) = call.protocol
    /\ \E u \in MsgTypes \ {call.message_type} : Lookup(protocol_handlers, u) # None

C9_LoadSkipsOnlyCorruptRecord ==
    call.op = "construct" /\ protocols_file.state = "json" =>
        /\ call.pc = "returned"
        /\ \A e \in Items(protocols_file.entries) :
             RecordFields \subseteq DOMAIN e.val
                => DictGet(protocol_handlers, e.key) = FromRecord(e.val)

\* in the log of a register_protocol: one write of the store, then one
\* on_protocol_negotiated event for (t, P), and every callback after the write
SavedThenSignalled ==
    /\ Cardinality(Positions(log, "save")) = 1
    /\ Cardinality(Positions(log, "emit")) = 1
    /\ \A i \in Positions(log, "emit") :
         /\ log[i].kind = "on_protocol_negotiated"
         /\ log[i].data = [message_type |-> call.message_type, protocol |-> call.protocol]
    /\ \A i \in Positions(log, "save") :
         \A j \in Positions(log, "emit") \cup Positions(log, "callback") : i < j

---------------------------------------------------------------------------
\* BridgeMessage

ValidationError == [error |-> "ValidationError"]

\* Field(..., regex="^(agora|atproto)$"): re.match, whose $ also matches before
\* a newline that ends the string
MatchesSidePattern(v) == v \in {"agora", "atproto", "agora\n", "atproto\n"}

\* BridgeMessage(source=, target=, content=, protocol=, meta=): the two regex
\* constraints are the only validators of the class
NewBridgeMessage(source, target, content, protocol, meta) ==
    IF MatchesSidePattern(source) /\ MatchesSidePattern(target)
    THEN [source |-> source, target |-> target, content |-> content,
          protocol |-> protocol, meta |-> meta]
    ELSE ValidationError

\* a caller constructs a BridgeMessage
BuildMessage(source, target, content, protocol, meta) ==
    /\ built' = NewBridgeMessage(source, target, content, protocol, meta)
    /\ call' = [op |-> "BridgeMessage",
                pc |-> IF built' = ValidationError THEN "raised" ELSE "returned",
                source |-> source, target |-> target]
    /\ log' = <<>>
    /\ UNCHANGED <<protocol_handlers, protocols_file, callbacks, adapterVars>>

InitMessage ==
    /\ protocols_file = FileMissing
    /\ protocol_handlers = LoadProtocols(protocols_file)
    /\ callbacks = NoCallbacks
    /\ call = [op |-> "construct", pc |-> "returned", after |-> "none"]
    /\ log = <<>>
    /\ built = None
    /\ capabilities = {ReadPublic, WritePosts}
    /\ agent = Own
    /\ config_dir = EmptyDir
    /\ session_file = FileMissing
    /\ session = LoadSession(session_file)
    /\ agora_protocols_file = FileMissing
    /\ agora_protocols = AgoraLoadProtocols(agora_protocols_file)

NextMessage ==
    \E s \in SideInputs, t \in SideInputs, c \in Payloads, p \in Protocols \cup {None},
       m \in {None, [timestamp |-> Timestamp, message_type |-> "post"]} :
        BuildMessage(s, t, c, p, m)

SpecMessage == InitMessage /\ [][NextMessage]_vars

\* C6: constructing a BridgeMessage whose source equals its target fails with
\* a validation error, so that no BridgeMessage has source = target.
C6_SourceDiffersFromTarget ==
    call.op = "BridgeMessage" =>
        /\ call.source = call.target => call.pc = "raised" /\ built = ValidationError
        /\ built # ValidationError => built.source # built.target

---------------------------------------------------------------------------
\* What a coroutine has done when it suspends or ends: raised an exception,
\* issued a transport request (and waits for the response), or returned

Error(class, text) == [class |-> class, text |-> text]

Raised(e) == [kind |-> "raise", error |-> e]
Requested(op, req) == [kind |-> "request", op |-> op, request |-> req]
Returned(v) == [kind |-> "return", value |-> v]

NoError == [none |-> "None"]

\* What the remote end of a request can do: the connection fails (aiohttp
\* raises), or it answers with an HTTP status and a body
ConnectionFailed == [kind |-> "failed", text |-> "Cannot connect to host"]
HttpError == [kind |-> "http", code |-> 500, text |-> "boom"]

---------------------------------------------------------------------------
\* ATProtoAdapter

AtOps == {"create_post", "get_profile", "get_feed", "search_posts"}

RequiredCapability(op) == IF op = "create_post" THEN WritePosts ELSE ReadPublic

CapabilityName(c) == IF c = WritePosts THEN "WRITE_POSTS" ELSE "READ_PUBLIC"

\* mutant: the check is gone
HasCapabilityAlways(c) == TRUE

\* mutant: an agent that is logged in is taken to hold every capability
HasCapabilityBySession(c) == c \in capabilities \/ Truthy(session)

\* ATProtoAdapter.has_capability
HasCapability(c) == c \in capabilities


\* mutant: the session check is gone, the request goes out without a token
AtStartAnonymous(op, args) ==
    IF ~HasCapability(RequiredCapability(op))
    THEN Raised(Error("Exception", "Agent does not have "
                                   \o CapabilityName(RequiredCapability(op))
                                   \o " capability"))
    ELSE Requested(op, [side |-> "atproto", endpoint |-> op,
                        bearer |-> IF ~Truthy(session) THEN "None" ELSE session.accessJwt,
                        args |-> args])

\* create_post, get_profile, get_feed, search_posts up to the request: the
\* capability check, then the session check, then the request with the access token
AtStart(op, args) ==
    IF ~HasCapability(RequiredCapability(op))
    THEN Raised(Error("Exception", "Agent does not have "
                                   \o CapabilityName(RequiredCapability(op))
                                   \o " capability"))
    ELSE IF ~Truthy(session)
    THEN Raised(Error("Exception", "Not authenticated"))
    ELSE Requested(op, [side |-> "atproto", endpoint |-> op,
                        bearer |-> session.accessJwt, args |-> args])

FailureText(op) ==
    CASE op = "create_post" -> "Failed to create post: "
      [] op = "get_profile" -> "Failed to get profile: "
      [] op = "get_feed" -> "Failed to get feed: "
      [] op = "search_posts" -> "Failed to search posts: "

\* 200 answers of the AT service: a JSON object
AtJson == [uri |-> "at://post/1", feed |-> <<[uri |-> "a"], [uri |-> "b"]>>,
           posts |-> <<[uri |-> "c"]>>]
AtResponses == {ConnectionFailed, HttpError,
                [kind |-> "http", code |-> 200, json |-> AtJson],
                [kind |-> "http", code |-> 200, json |-> [cursor |-> "x"]]}

\* the same methods from the response on
AtFinish(op, response) ==
    IF response.kind = "failed" THEN Raised(Error("ClientError", response.text))
    ELSE IF response.code # 200
    THEN Raised(Error("Exception", FailureText(op) \o response.text))
    ELSE CASE op = "get_feed" -> Returned(Get(response.json, "feed", <<>>))
           [] op = "search_posts" -> Returned(Get(response.json, "posts", <<>>))
           [] OTHER -> Returned(response.json)

\* mutant: content of no known type is posted when the message names a protocol
AtProcessBridgeMessageByProtocol(message) ==
    IF message.target # "atproto"
    THEN Raised(Error("ValueError", "Message target must be atproto"))
    ELSE LET content == message.content
             message_type == Get(content, "type", "")
         IN CASE message_type = "post" \/ (message_type \notin AtOps /\ message.protocol # None) ->
                   AtStart("create_post", [text |-> Get(content, "text", ""),
                                           facets |-> Get(content, "facets", "None")])
              [] message_type \in {"get_feed", "get_profile", "search_posts"} ->
                   AtStart(message_type, [arg |-> "x"])
              [] OTHER ->
                   Raised(Error("ValueError", "Unsupported message type: " \o message_type))

\* ATProtoAdapter.process_bridge_message up to the request
AtProcessBridgeMessage(message) ==
    IF message.target # "atproto"
    THEN Raised(Error("ValueError", "Message target must be atproto"))
    ELSE LET content == message.content
             message_type == Get(content, "type", "")
         IN CASE message_type = "post" ->
                   AtStart("create_post", [text |-> Get(content, "text", ""),
                                           facets |-> Get(content, "facets", "None")])
              [] message_type = "get_feed" ->
                   AtStart("get_feed", [algorithm |-> Get(content, "algorithm", "None"),
                                        limit |-> Get(content, "limit", "50")])
              [] message_type = "get_profile" ->
                   AtStart("get_profile", [actor |-> Get(content, "actor", "None")])
              [] message_type = "search_posts" ->
                   AtStart("search_posts", [q |-> Get(content, "query", "None"),
                                            limit |-> Get(content, "limit", "25")])
              [] OTHER ->
                   Raised(Error("ValueError", "Unsupported message type: " \o message_type))

---------------------------------------------------------------------------
\* AgoraAdapter

JsonNull == "null"

\* mutant: the body of the request is the message in an envelope of its own
AgoraSendMessageEnveloped(message, protocol_id) ==
    Requested("send_message", [side |-> "agora", endpoint |-> "/message",
                               protocolHash |-> JsonNull,
                               body |-> [content |-> message, timestamp |-> Timestamp]])

\* AgoraAdapter.send_message up to the request; `if protocol_id and ...`: None
\* and the empty string are falsy
AgoraSendMessage(message, protocol_id) ==
    LET protocol_hash == IF /\ protocol_id # JsonNull
                            /\ protocol_id # ""
                            /\ protocol_id \in Keys(agora_protocols)
                         THEN DictGet(agora_protocols, protocol_id).id
                         ELSE JsonNull
    IN Requested("send_message", [side |-> "agora", endpoint |-> "/message",
                                  protocolHash |-> protocol_hash, body |-> message])

\* answers of the Agora agent
AgoraSuccess == [kind |-> "http", code |-> 200,
                 json |-> [status |-> "success", body |-> [answer |-> "ok"]]]
AgoraResponses == {ConnectionFailed, HttpError, AgoraSuccess,
                   [kind |-> "http", code |-> 200, json |-> [status |-> "success"]],
                   [kind |-> "http", code |-> 200,
                    json |-> [status |-> "error", error |-> "rejected"]]}

\* an agent that echoes: its body is the body of the request
AgoraEcho(x) == [kind |-> "http", code |-> 200,
                 json |-> [status |-> "success", body |-> [echo |-> x]]]
\* answers that name no status, or a failure without a text
AgoraBareResponses == {[kind |-> "http", code |-> 200, json |-> [body |-> [answer |-> "ok"]]],
                       [kind |-> "http", code |-> 200, json |-> [status |-> "error"]]}

\* mutant: an answer whose status is not "success" is returned as a body
AgoraSendMessageFinishLenient(response) ==
    IF response.kind = "failed" THEN Raised(Error("ClientError", response.text))
    ELSE IF response.code # 200
    THEN Raised(Error("Exception", "Failed to send message: " \o response.text))
    ELSE Returned(Get(response.json, "body", [empty |-> "{}"]))

\* AgoraAdapter.send_message from the response on
AgoraSendMessageFinish(response) ==
    IF response.kind = "failed" THEN Raised(Error("ClientError", response.text))
    ELSE IF response.code # 200
    THEN Raised(Error("Exception", "Failed to send message: " \o response.text))
    ELSE IF Get(response.json, "status", "None") # "success"
    THEN Raised(Error("Exception",
                      "Failed to send message: " \o Get(response.json, "error", "None")))
    ELSE Returned(Get(response.json, "body", [empty |-> "{}"]))

\* mutant: the target of the message is not looked at
AgoraProcessBridgeMessageUnchecked(message) ==
    IF message.protocol # None /\ message.protocol.id \in Keys(agora_protocols)
    THEN AgoraSendMessage(message.content, message.protocol.id)
    ELSE AgoraSendMessage(message.content, JsonNull)

\* AgoraAdapter.process_bridge_message up to the request
AgoraProcessBridgeMessage(message) ==
    IF message.target # "agora"
    THEN Raised(Error("ValueError", "Message target must be agora"))
    ELSE IF message.protocol # None /\ message.protocol.id \in Keys(agora_protocols)
    THEN AgoraSendMessage(message.content, message.protocol.id)
    ELSE AgoraSendMessage(message.content, JsonNull)

---------------------------------------------------------------------------
\* ProtocolBridge: sending

\* a call that may suspend: its state while it waits and when it has ended
Call(op, pc, direction, message, message_type, pending, result, error) ==
    [op |-> op, pc |-> pc, direction |-> direction, message |-> message,
     message_type |-> message_type, pending |-> pending, result |-> result,
     error |-> error]

\* the host program makes one call at a time: the next one when the outcome of
\* the last one has been delivered to it
NoCall == [op |-> "none", pc |-> "idle"]
Idle == call.pc = "idle"

\* the call has returned or raised: its caller goes on
Deliver ==
    /\ call.pc \in {"returned", "raised"}
    /\ call' = NoCall
    /\ log' = <<>>
    /\ UNCHANGED <<protocol_handlers, protocols_file, callbacks, built, adapterVars>>

DispatchEvent(adapter, message) ==
    [ev |-> "dispatch", adapter |-> adapter, message |-> message]
RequestEvent(request) == [ev |-> "request", request |-> request]
ResponseEvent(response) == [ev |-> "response", response |-> response]

\* send_to_agora builds atproto -> agora and awaits agora_adapter;
\* send_to_atproto builds agora -> atproto and awaits atproto_adapter
SourceOf(direction) == IF direction = "to_agora" THEN "atproto" ELSE "agora"

\* mutant: send_to_atproto was copied from send_to_agora and kept its target
TargetOfCopied(direction) == "agora"

TargetOf(direction) == IF direction = "to_agora" THEN "agora" ELSE "atproto"
AdapterOf(direction) == IF direction = "to_agora" THEN "agora" ELSE "atproto"

ProcessBridgeMessage(adapter, message) ==
    IF adapter = "agora" THEN AgoraProcessBridgeMessage(message)
    ELSE AtProcessBridgeMessage(message)

\* mutant: the failure is logged and a default value returned
SendFailedSwallowed(direction, message, e) ==
    [events |-> <<>>, pc |-> "returned", result |-> [empty |-> "{}"], error |-> NoError]

\* the except branch of a send: on_error with str(e), then raise
SendFailed(direction, message, e) ==
    [events |-> TriggerCallbacks("on_error", [error |-> e.text, direction |-> direction,
                                              message |-> message]),
     pc |-> "raised", result |-> None, error |-> e]

\* mutant: on_post is signalled for every send that is a post, whatever its side
SendSucceededBothSides(direction, message, message_type, response) ==
    [events |-> IF message_type = "post" \/ Get(message, "type", "None") = "post"
                THEN TriggerCallbacks("on_post", [content |-> Get(message, "text", ""),
                                                  response |-> response])
                ELSE <<>>,
     pc |-> "returned", result |-> response, error |-> NoError]

\* the success branch of a send: send_to_atproto signals on_post for a post
SendSucceeded(direction, message, message_type, response) ==
    [events |-> IF direction = "to_atproto"
                   /\ (message_type = "post" \/ Get(message, "type", "None") = "post")
                THEN TriggerCallbacks("on_post", [content |-> Get(message, "text", ""),
                                                  response |-> response])
                ELSE <<>>,
     pc |-> "returned", result |-> response, error |-> NoError]

\* mutant: the on_message callbacks run when the adapter has been awaited
StartEventsAnnouncedLate(announced, handed, then) == handed \o then \o announced

\* the order of a send: _trigger_callbacks("on_message"), then the await of
\* process_bridge_message and what follows from it
StartEvents(announced, handed, then) == announced \o handed \o then

\* send_to_agora / send_to_atproto up to the transport request of the adapter
SendStart(op, direction, message, message_type) ==
    LET bridge_message ==
            NewBridgeMessage(SourceOf(direction), TargetOf(direction), message,
                             Lookup(protocol_handlers, message_type),
                             [timestamp |-> Timestamp, message_type |-> message_type])
        announced == TriggerCallbacks("on_message",
                                      [direction |-> direction, message |-> message,
                                       message_type |-> message_type])
        handed == <<DispatchEvent(AdapterOf(direction), bridge_message)>>
        out == ProcessBridgeMessage(AdapterOf(direction), bridge_message)
        failed == SendFailed(direction, message, out.error)
    IN /\ Idle
       /\ IF out.kind = "raise"
          THEN /\ log' = StartEvents(announced, handed, failed.events)
               /\ call' = Call(op, failed.pc, direction, message, message_type, "none",
                               failed.result, failed.error)
          ELSE /\ log' = StartEvents(announced, handed, <<RequestEvent(out.request)>>)
               /\ call' = Call(op, "waiting", direction, message, message_type, out.op,
                               None, NoError)
       /\ UNCHANGED <<protocol_handlers, protocols_file, callbacks, built, adapterVars>>

SendToAgora(message, message_type) ==
    SendStart("send_to_agora", "to_agora", message, message_type)

SendToAtproto(message, message_type) ==
    SendStart("send_to_atproto", "to_atproto", message, message_type)

\* ProtocolBridge.get_feed up to the request of the adapter
GetFeed(algorithm, limit) ==
    SendStart("get_feed", "to_atproto",
              [type |-> "get_feed", algorithm |-> algorithm, limit |-> limit], "get_feed")

\* mutant: post_to_atproto leaves the capability to the adapter
PostToAtprotoUnchecked(text) ==
    SendStart("post_to_atproto", "to_atproto", [type |-> "post", text |-> text], "post")

\* ProtocolBridge.post_to_atproto (without facets)
PostToAtproto(text) ==
    IF ~HasCapability(WritePosts)
    THEN /\ Idle
         /\ log' = <<>>
         /\ call' = Call("post_to_atproto", "raised", "to_atproto", None, "post", "none",
                         None, Error("ValueError",
                                     "Agent does not have WRITE_POSTS capability"))
         /\ UNCHANGED <<protocol_handlers, protocols_file, callbacks, built, adapterVars>>
    ELSE SendStart("post_to_atproto", "to_atproto", [type |-> "post", text |-> text], "post")

\* what the remote end of the pending request can answer
Responses(pending) ==
    IF pending = "send_message"
    THEN AgoraResponses \cup AgoraBareResponses \cup {AgoraEcho(x) : x \in Payloads}
    ELSE AtResponses

\* list.get: what ATProtoAdapter.get_feed returns is a list, and a list has no get
ListGet(list, key, default) ==
    Raised(Error("AttributeError", "'list' object has no attribute 'get'"))

\* ProtocolBridge.get_feed after its await of send_to_atproto: an error of the
\* send passes through, the value it returned is asked for its "feed"
GetFeedReturn(sent) ==
    IF sent.pc = "raised" THEN sent
    ELSE IF ListGet(sent.result, "feed", <<>>).kind = "raise"
    THEN [events |-> sent.events, pc |-> "raised", result |-> None,
          error |-> ListGet(sent.result, "feed", <<>>).error]
    ELSE [sent EXCEPT !.result = ListGet(sent.result, "feed", <<>>).value]

\* the response of the remote end arrives and the send runs to its end
SendFinish(response) ==
    LET out == IF call.pending = "send_message" THEN AgoraSendMessageFinish(response)
               ELSE AtFinish(call.pending, response)
        sent == IF out.kind = "raise"
                THEN SendFailed(call.direction, call.message, out.error)
                ELSE SendSucceeded(call.direction, call.message, call.message_type,
                                   out.value)
        ended == IF call.op = "get_feed" THEN GetFeedReturn(sent) ELSE sent
    IN /\ call.pc = "waiting"
       /\ call.direction \in {"to_agora", "to_atproto"}
       /\ response \in Responses(call.pending)
       /\ log' = log \o <<ResponseEvent(response)>> \o ended.events
       /\ call' = [call EXCEPT !.pc = ended.pc, !.pending = "none",
                               !.result = ended.result, !.error = ended.error]
       /\ UNCHANGED <<protocol_handlers, protocols_file, callbacks, built, adapterVars>>

\* a caller uses the AT-side adapter directly: create_post, get_profile, get_feed
\* or search_posts up to the request
AdapterCall(op) ==
    LET out == AtStart(op, [arg |-> "x"])
    IN /\ Idle
       /\ IF out.kind = "raise"
          THEN /\ log' = <<>>
               /\ call' = Call(op, "raised", "adapter", None, NoType, "none", None, out.error)
          ELSE /\ log' = <<RequestEvent(out.request)>>
               /\ call' = Call(op, "waiting", "adapter", None, NoType, op, None, NoError)
       /\ UNCHANGED <<protocol_handlers, protocols_file, callbacks, built, adapterVars>>

\* a caller hands a BridgeMessage to an adapter: process_bridge_message up to
\* the request
AdapterProcessBridgeMessage(adapter, message) ==
    LET out == ProcessBridgeMessage(adapter, message)
    IN /\ Idle
       /\ IF out.kind = "raise"
          THEN /\ log' = <<>>
               /\ call' = [op |-> "process_bridge_message", pc |-> "raised",
                           direction |-> "adapter", adapter |-> adapter,
                           message |-> message, message_type |-> NoType,
                           pending |-> "none", result |-> None, error |-> out.error]
          ELSE /\ log' = <<RequestEvent(out.request)>>
               /\ call' = [op |-> "process_bridge_message", pc |-> "waiting",
                           direction |-> "adapter", adapter |-> adapter,
                           message |-> message, message_type |-> NoType,
                           pending |-> out.op, result |-> None, error |-> NoError]
       /\ UNCHANGED <<protocol_handlers, protocols_file, callbacks, built, adapterVars>>

\* the response arrives and the adapter method runs to its end
AdapterFinish(response) ==
    LET out == IF call.pending = "send_message" THEN AgoraSendMessageFinish(response)
               ELSE AtFinish(call.pending, response)
    IN /\ call.pc = "waiting"
       /\ call.direction = "adapter"
       /\ response \in Responses(call.pending)
       /\ log' = log \o <<ResponseEvent(response)>>
       /\ call' = [call EXCEPT !.pc = IF out.kind = "raise" THEN "raised" ELSE "returned",
                               !.pending = "none",
                               !.result = IF out.kind = "raise" THEN None ELSE out.value,
                               !.error = IF out.kind = "raise" THEN out.error ELSE NoError]
       /\ UNCHANGED <<protocol_handlers, protocols_file, callbacks, built, adapterVars>>

\* the capability lists an AT agent can be constructed with
CapabilitySets == {{ReadPublic, WritePosts}, {ReadPublic, GenerateFeeds},
                   {WritePosts, InteractUsers}}

\* the stores a process can start on: none; a mapping written by register_protocol;
\* a mapping and the adapter's own store, both written by a negotiation
PostFile == FileJson(<<[key |-> "post", val |-> ToRecord(ProtoA)]>>)
AgoraFile == AgoraSaveProtocols(<<[key |-> ProtoA.id, val |-> ProtoA]>>)
StartStores == {[file |-> FileMissing, agora |-> FileMissing],
                [file |-> PostFile, agora |-> FileMissing],
                [file |-> PostFile, agora |-> AgoraFile]}

InitBridge ==
    /\ \E st \in StartStores : /\ protocols_file = st.file
                               /\ agora_protocols_file = st.agora
    /\ agora_protocols = AgoraLoadProtocols(agora_protocols_file)
    /\ protocol_handlers = LoadProtocols(protocols_file)
    /\ callbacks = NoCallbacks
    /\ call = NoCall
    /\ log = <<>>
    /\ built = None
    /\ capabilities \in CapabilitySets
    /\ agent = Own
    /\ config_dir = EmptyDir
    /\ session_file \in {FileMissing, SessionFile(Session1)}
    /\ session = LoadSession(session_file)

NextBridge ==
    \/ \E k \in {"on_message", "on_post", "on_error", UnknownKind}, c \in CallbackIds :
          Idle /\ On(k, c)
    \/ \E m \in Payloads, t \in MsgTypes \cup {NoType} : SendToAgora(m, t)
    \/ \E m \in Payloads, t \in MsgTypes \cup {NoType} : SendToAtproto(m, t)
    \/ PostToAtproto("hello")
    \/ \E r \in AgoraResponses \cup AtResponses : SendFinish(r)
    \/ \E op \in AtOps : AdapterCall(op)
    \/ \E r \in AtResponses : AdapterFinish(r)
    \/ Deliver

SpecBridge == InitBridge /\ [][NextBridge]_vars

\* the exchanges with the two remote ends, without callbacks: every payload,
\* an Agora agent that may echo the request, messages handed to the adapters
EchoOf(l) == {AgoraEcho(l[i].request.body) :
                i \in {j \in Positions(l, "request") : l[j].request.side = "agora"}}

\* the BridgeMessages a caller can hand to an adapter
HandedMessages ==
    {NewBridgeMessage(s, t, c, p, None) :
        s \in Sides, t \in Sides, c \in {PostPayload, PlainPayload},
        p \in {None, ProtoA}}

NextExchange ==
    \/ \E m \in Payloads, t \in {"post", NoType} : SendToAgora(m, t)
    \/ \E m \in Payloads, t \in {"post", NoType} : SendToAtproto(m, t)
    \/ GetFeed("reverse-chronological", "10")
    \/ \E r \in AgoraResponses \cup AgoraBareResponses \cup AtResponses \cup EchoOf(log) :
          SendFinish(r)
    \/ \E a \in Sides, m \in HandedMessages : AdapterProcessBridgeMessage(a, m)
    \/ \E op \in AtOps : AdapterCall(op)
    \/ \E r \in AgoraResponses \cup AgoraBareResponses \cup AtResponses \cup EchoOf(log) :
          AdapterFinish(r)
    \/ Deliver

SpecExchange == InitBridge /\ [][NextExchange]_vars

---------------------------------------------------------------------------
\* Properties of sending (checked under SpecBridge)

IsSend == call.op \in {"send_to_agora", "send_to_atproto", "post_to_atproto"}

\* the positions of the log where an event of the kind is emitted
Emits(kind) == {i \in Positions(log, "emit") : log[i].kind = kind}

\* the AT-side operation a call asks for: an adapter method called directly,
\* post_to_atproto, or a send to AT whose content names the operation
AskedOperation ==
    IF call.op \in AtOps THEN call.op
    ELSE IF call.op = "post_to_atproto" THEN "create_post"
    ELSE IF call.op = "send_to_atproto"
    THEN CASE Get(call.message, "type", "") = "post" -> "create_post"
           [] Get(call.message, "type", "") \in {"get_feed", "get_profile", "search_posts"}
                -> Get(call.message, "type", "")
           [] OTHER -> "none"
    ELSE "none"

\* C2: create post needs write-posts, and get profile, get feed and search posts
\* need read-public; an operation asked for an agent without the capability
\* it needs ends with a capability-denied error and no transport request,
\* with and without a session.
C2_DeniedBeforeTransport ==
    /\ AskedOperation = "create_post" /\ WritePosts \notin capabilities
         => /\ call.pc = "raised"
            /\ call.error.text = "Agent does not have WRITE_POSTS capability"
            /\ Positions(log, "request") = {}
    /\ AskedOperation \in {"get_profile", "get_feed", "search_posts"}
       /\ ReadPublic \notin capabilities
         => /\ call.pc = "raised"
            /\ call.error.text = "Agent does not have READ_PUBLIC capability"
            /\ Positions(log, "request") = {}

C2_Witness ==
    /\ call.op = "post_to_atproto"
    /\ WritePosts \notin capabilities
    /\ session = Session1
    /\ call.pc = "raised"

\* what a remote end answers when the exchange has failed
IsFailure(response) ==
    \/ response.kind = "failed"
    \/ response.code # 200
    \/ "status" \in DOMAIN response.json /\ response.json.status # "success"

\* C3: a send that the adapter ends with an error emits exactly one on_error
\* event, with the text of that error, after the failure, and raises the error:
\* it returns no value; a send that has not failed emits no on_error event.
C3_ErrorSignalledThenRaised ==
    IsSend /\ Positions(log, "dispatch") # {} =>
        /\ \A i \in Positions(log, "response") :
             IsFailure(log[i].response) => call.pc = "raised"
        /\ call.pc = "raised" =>
             /\ Cardinality(Emits("on_error")) = 1
             /\ \A i \in Emits("on_error") :
                  /\ log[i].data.error = call.error.text
                  /\ \A j \in Positions(log, "dispatch") \cup Positions(log, "response") :
                       j < i
             /\ call.result = None
             /\ call.error # NoError
        /\ call.pc # "raised" =>
             /\ Emits("on_error") = {}
             /\ \A i \in Positions(log, "callback") : log[i].kind # "on_error"

C3_Witness ==
    /\ call.op = "send_to_agora"
    /\ call.pc = "raised"
    /\ \E i \in Positions(log, "response") : log[i].response = HttpError
    /\ \E i \in Positions(log, "callback") : log[i].kind = "on_error"

\* C4: a send emits on_message exactly once, before it hands the message to
\* the adapter and so before any transport request, whether the dispatch
\* succeeds or fails.
C4_AnnouncedBeforeDispatch ==
    call.op \in {"send_to_agora", "send_to_atproto"}
    \/ (call.op = "post_to_atproto" /\ WritePosts \in capabilities) =>
        /\ Cardinality(Emits("on_message")) = 1
        /\ Cardinality(Positions(log, "dispatch")) = 1
        /\ \A i \in Emits("on_message") :
             /\ log[i].data = [direction |-> call.direction, message |-> call.message,
                               message_type |-> call.message_type]
             /\ \A j \in Positions(log, "callback") :
                  log[j].kind = "on_message" => i < j
             /\ \A j \in Positions(log, "dispatch") \cup Positions(log, "request") :
                  /\ i < j
                  /\ \A k \in Positions(log, "callback") :
                       log[k].kind = "on_message" => k < j

C4_Witness ==
    /\ call.op = "send_to_atproto"
    /\ call.pc = "raised"
    /\ Positions(log, "request") = {}
    /\ \E i \in Positions(log, "callback") : log[i].kind = "on_message"

\* C5: each event invokes the callbacks registered for its kind in registration
\* order, each exactly once, also those after a callback that raised; a send
\* whose on_message callback raised still hands the message to the adapter, and
\* the error of a send is the adapter's, never the callback's.
C5_CallbacksInOrderIsolated ==
    /\ \A i \in Positions(log, "emit") :
         \A j \in 1..Len(callbacks[log[i].kind]) :
            /\ i + j <= Len(log)
            /\ log[i + j].ev = "callback"
            /\ log[i + j].kind = log[i].kind
            /\ log[i + j].cb = callbacks[log[i].kind][j]
            /\ log[i + j].data = log[i].data
    /\ \A p \in Positions(log, "callback") :
         \E i \in Positions(log, "emit") :
            /\ i < p
            /\ p <= i + Len(callbacks[log[i].kind])
            /\ log[p].kind = log[i].kind
    /\ IsSend /\ Emits("on_message") # {} =>
         /\ \E j \in Positions(log, "dispatch") : \A i \in Emits("on_message") : i < j
         /\ call.pc = "raised" =>
              \E i \in Emits("on_error") : log[i].data.error = call.error.text

C5_Witness ==
    /\ callbacks["on_message"] = <<"A", "B">>
    /\ call.op = "send_to_agora"
    /\ call.pc = "returned"
    /\ \E i \in Positions(log, "callback") :
         /\ log[i].cb = "A" /\ log[i].outcome = "raised"
         /\ log[i + 1].ev = "callback"
         /\ log[i + 1].cb = "B" /\ log[i + 1].outcome = "returned"

\* C7: every message a send builds names the two sides, one as source and the
\* other as target (atproto -> agora for send_to_agora, agora -> atproto for
\* send_to_atproto), whatever its content and metadata; it is handed to the
\* adapter of its target, whose target check therefore never fails.
C7_RoutedByTarget ==
    IsSend =>
        /\ \A i \in Positions(log, "dispatch") :
             /\ log[i].message # ValidationError
             /\ log[i].message.source # log[i].message.target
             /\ {log[i].message.source, log[i].message.target} = Sides
             /\ log[i].adapter = log[i].message.target
             /\ log[i].message.target =
                  (IF call.op = "send_to_agora" THEN "agora" ELSE "atproto")
             /\ log[i].message.content = call.message
        /\ call.pc = "raised" =>
             call.error.text \notin {"Message target must be agora",
                                     "Message target must be atproto"}

C7_Witness ==
    /\ call.op = "send_to_atproto"
    /\ call.pc = "returned"
    /\ \E i \in Positions(log, "dispatch") :
         /\ log[i].message.protocol = ProtoA
         /\ log[i].message.target = "atproto"
         /\ log[i].adapter = "atproto"

---------------------------------------------------------------------------
\* Negotiation

\* the descriptions a caller negotiates with
Descriptions == {"D"}

\* answers of the Agora agent to POST /negotiate: the JSON object of a 200 answer
\* names the protocol (id) and may give a version, a schema and a text of its own
NegotiatedP1 == [kind |-> "http", code |-> 200, json |-> [id |-> "p1", schema |-> "{}"]]
NegotiatedP2 == [kind |-> "http", code |-> 200,
                 json |-> [id |-> "p2", version |-> "2.0", schema |-> "[1, 2]",
                           description |-> "text of the remote agent"]]
NegotiatedNoId == [kind |-> "http", code |-> 200, json |-> [schema |-> "{}"]]
NegotiateResponses == {ConnectionFailed, HttpError, NegotiatedP1, NegotiatedP2,
                       NegotiatedNoId}

\* AgoraAdapter.negotiate_protocol up to the request
AgoraNegotiateProtocol(description) ==
    Requested("negotiate_protocol", [side |-> "agora", endpoint |-> "/negotiate",
                                     json |-> [description |-> description]])

\* mutant: the protocol takes the text the remote agent answered with
ProtocolOfRemoteText(description, protocol_data) ==
    Proto(protocol_data.id, Get(protocol_data, "version", "1.0"),
          Get(protocol_data, "description", description),
          IF "schema" \in DOMAIN protocol_data THEN JsonLoads(protocol_data.schema)
          ELSE PyDict)

\* the NegotiatedProtocol built from the answer: the caller's description, the
\* defaults "1.0" and {} for a version and a schema the answer lacks
ProtocolOf(description, protocol_data) ==
    Proto(protocol_data.id, Get(protocol_data, "version", "1.0"), description,
          IF "schema" \in DOMAIN protocol_data THEN JsonLoads(protocol_data.schema)
          ELSE PyDict)

\* self.protocols[protocol.id] = protocol; self._save_protocols()
AgoraStored(protocol) ==
    [protocols |-> DictSet(agora_protocols, protocol.id, protocol),
     file |-> AgoraSaveProtocols(DictSet(agora_protocols, protocol.id, protocol)),
     events |-> <<[ev |-> "adapter_save",
                   written |-> AgoraSaveProtocols(
                                   DictSet(agora_protocols, protocol.id, protocol)).state]>>]

AgoraKept == [protocols |-> agora_protocols, file |-> agora_protocols_file,
              events |-> <<>>]

\* AgoraAdapter.negotiate_protocol from the response on: its outcome and what
\* it leaves in the adapter (id=None is refused by NegotiatedProtocol, id: str)
AgoraNegotiateProtocolFinish(description, response) ==
    IF response.kind = "failed"
    THEN [out |-> Raised(Error("ClientError", response.text)), adapter |-> AgoraKept]
    ELSE IF response.code # 200
    THEN [out |-> Raised(Error("Exception",
                               "Failed to negotiate protocol: " \o response.text)),
          adapter |-> AgoraKept]
    ELSE IF "id" \notin DOMAIN response.json
    THEN [out |-> Raised(Error("ValidationError", "id: none is not an allowed value")),
          adapter |-> AgoraKept]
    ELSE [out |-> Returned(ProtocolOf(description, response.json)),
          adapter |-> AgoraStored(ProtocolOf(description, response.json))]

\* a call of negotiate_protocol: of the orchestrator (by "bridge") or of the
\* Agora-side adapter (by "adapter")
NegotiateCall(by, pc, description, message_type, pending, result, error) ==
    [op |-> "negotiate_protocol", by |-> by, pc |-> pc, direction |-> "negotiate",
     description |-> description, message_type |-> message_type, pending |-> pending,
     result |-> result, error |-> error, had |-> Items(protocol_handlers)]

\* ProtocolBridge.negotiate_protocol up to the request of the adapter
NegotiateProtocol(description, message_type) ==
    /\ Idle
    /\ log' = <<RequestEvent(AgoraNegotiateProtocol(description).request)>>
    /\ call' = NegotiateCall("bridge", "waiting", description, message_type,
                             "negotiate_protocol", None, NoError)
    /\ UNCHANGED <<protocol_handlers, protocols_file, callbacks, built, adapterVars>>

\* mutant: a request that failed is issued once more
NegotiateProtocolFinishRetrying(response) ==
    /\ call.pc = "waiting"
    /\ call.op = "negotiate_protocol"
    /\ call.by = "bridge"
    /\ response.kind = "failed"
    /\ log' = log \o <<ResponseEvent(response),
                        RequestEvent(AgoraNegotiateProtocol(call.description).request)>>
    /\ UNCHANGED <<protocol_handlers, protocols_file, callbacks, call, built, adapterVars>>

\* a dict without the key k
DictDel(d, k) == SelectSeq(d, LAMBDA e : e.key # k)

\* mutant: a negotiation that failed withdraws the mapping of its message type
NegotiationEffectWithdrawing(description, message_type, response) ==
    LET r == AgoraNegotiateProtocolFinish(description, response)
        protocol == r.out.value
        h1 == DictSet(protocol_handlers, message_type, protocol)
    IN IF r.out.kind = "raise"
       THEN [pc |-> "raised", result |-> None, error |-> r.out.error,
             handlers |-> DictDel(protocol_handlers, message_type),
             file |-> SaveProtocols(DictDel(protocol_handlers, message_type)),
             adapter |-> r.adapter,
             events |-> TriggerCallbacks("on_error",
                            [error |-> r.out.error.text,
                             action |-> "negotiate_protocol",
                             description |-> description])]
       ELSE [pc |-> "returned", result |-> protocol, error |-> NoError,
             handlers |-> IF message_type # NoType THEN h1 ELSE protocol_handlers,
             file |-> IF message_type # NoType THEN SaveProtocols(h1) ELSE protocols_file,
             adapter |-> r.adapter,
             events |-> r.adapter.events]

\* mutant: register_protocol writes the store before it updates the mapping
BridgeNegotiatedSavesFirst(description, message_type, out) ==
    LET protocol == out.value
        h1 == DictSet(protocol_handlers, message_type, protocol)
        f1 == SaveProtocols(protocol_handlers)
    IN IF out.kind = "raise"
       THEN [pc |-> "raised", result |-> None, error |-> out.error,
             handlers |-> protocol_handlers, file |-> protocols_file,
             events |-> TriggerCallbacks("on_error",
                            [error |-> out.error.text,
                             action |-> "negotiate_protocol",
                             description |-> description])]
       ELSE [pc |-> "returned", result |-> protocol, error |-> NoError,
             handlers |-> IF message_type # NoType THEN h1 ELSE protocol_handlers,
             file |-> IF message_type # NoType THEN f1 ELSE protocols_file,
             events |-> <<>>]

\* ProtocolBridge.negotiate_protocol once the adapter's coroutine has ended
\* with out: register_protocol if it returned and a message type was given;
\* on_error and the error raised again if it raised
BridgeNegotiated(description, message_type, out) ==
    LET protocol == out.value
        h1 == DictSet(protocol_handlers, message_type, protocol)
        f1 == SaveProtocols(h1)
    IN IF out.kind = "raise"
       THEN [pc |-> "raised", result |-> None, error |-> out.error,
             handlers |-> protocol_handlers, file |-> protocols_file,
             events |-> TriggerCallbacks("on_error",
                            [error |-> out.error.text,
                             action |-> "negotiate_protocol",
                             description |-> description])]
       ELSE IF message_type # NoType
       THEN [pc |-> "returned", result |-> protocol, error |-> NoError,
             handlers |-> h1, file |-> f1,
             events |-> <<[ev |-> "save", written |-> f1.state]>>
                        \o TriggerCallbacks("on_protocol_negotiated",
                               [message_type |-> message_type, protocol |-> protocol])]
       ELSE [pc |-> "returned", result |-> protocol, error |-> NoError,
             handlers |-> protocol_handlers, file |-> protocols_file,
             events |-> <<>>]

\* ProtocolBridge.negotiate_protocol from the answer on, for a call that runs
\* alone: the adapter builds and stores the protocol, then the orchestrator
\* goes on
NegotiationEffect(description, message_type, response) ==
    LET r == AgoraNegotiateProtocolFinish(description, response)
        n == BridgeNegotiated(description, message_type, r.out)
    IN [pc |-> n.pc, result |-> n.result, error |-> n.error,
        handlers |-> n.handlers, file |-> n.file, adapter |-> r.adapter,
        events |-> r.adapter.events \o n.events]

\* the answer arrives and negotiate_protocol runs to its end
NegotiateProtocolFinish(response) ==
    LET n == NegotiationEffect(call.description, call.message_type, response)
    IN /\ call.pc = "waiting"
       /\ call.op = "negotiate_protocol"
       /\ call.by = "bridge"
       /\ agora_protocols' = n.adapter.protocols
       /\ agora_protocols_file' = n.adapter.file
       /\ protocol_handlers' = n.handlers
       /\ protocols_file' = n.file
       /\ log' = log \o <<ResponseEvent(response)>> \o n.events
       /\ call' = [call EXCEPT !.pc = n.pc, !.pending = "none", !.result = n.result,
                               !.error = n.error]
       /\ UNCHANGED <<callbacks, built, capabilities, session, session_file, agent,
                      config_dir>>

\* a caller uses AgoraAdapter.negotiate_protocol directly
AgoraNegotiate(description) ==
    /\ Idle
    /\ log' = <<RequestEvent(AgoraNegotiateProtocol(description).request)>>
    /\ call' = NegotiateCall("adapter", "waiting", description, NoType,
                             "negotiate_protocol", None, NoError)
    /\ UNCHANGED <<protocol_handlers, protocols_file, callbacks, built, adapterVars>>

AgoraNegotiateFinish(response) ==
    LET r == AgoraNegotiateProtocolFinish(call.description, response)
    IN /\ call.pc = "waiting"
       /\ call.op = "negotiate_protocol"
       /\ call.by = "adapter"
       /\ agora_protocols' = r.adapter.protocols
       /\ agora_protocols_file' = r.adapter.file
       /\ log' = log \o <<ResponseEvent(response)>> \o r.adapter.events
       /\ call' = IF r.out.kind = "raise"
                  THEN [call EXCEPT !.pc = "raised", !.pending = "none",
                                    !.error = r.out.error]
                  ELSE [call EXCEPT !.pc = "returned", !.pending = "none",
                                    !.result = r.out.value]
       /\ UNCHANGED <<protocol_handlers, protocols_file, callbacks, built,
                      capabilities, session, session_file, agent, config_dir>>

InitNegotiate ==
    /\ \E st \in StartStores : /\ protocols_file = st.file
                               /\ agora_protocols_file = st.agora
    /\ agora_protocols = AgoraLoadProtocols(agora_protocols_file)
    /\ protocol_handlers = LoadProtocols(protocols_file)
    /\ callbacks = NoCallbacks
    /\ call = NoCall
    /\ log = <<>>
    /\ built = None
    /\ capabilities = {ReadPublic, WritePosts}
    /\ agent = Own
    /\ config_dir = EmptyDir
    /\ session_file = SessionFile(Session1)
    /\ session = LoadSession(session_file)

NextNegotiate ==
    \/ \E k \in {"on_protocol_negotiated", "on_error"}, c \in Raising : Idle /\ On(k, c)
    \/ \E t \in MsgTypes : Idle /\ RegisterProtocol(t, ProtoB)
    \/ \E d \in Descriptions, t \in MsgTypes \cup {NoType} : NegotiateProtocol(d, t)
    \/ \E r \in NegotiateResponses : NegotiateProtocolFinish(r)
    \/ \E d \in Descriptions : AgoraNegotiate(d)
    \/ \E r \in NegotiateResponses : AgoraNegotiateFinish(r)
    \/ \E t \in MsgTypes \cup {NoType} : SendToAgora(PlainPayload, t)
    \/ \E t \in MsgTypes \cup {NoType} : SendToAtproto(PostPayload, t)
    \/ \E r \in AgoraResponses \cup AtResponses : SendFinish(r)
    \/ \E op \in AtOps : AdapterCall(op)
    \/ \E r \in AtResponses : AdapterFinish(r)
    \/ Idle /\ Construct
    \/ Deliver

SpecNegotiate == InitNegotiate /\ [][NextNegotiate]_vars

---------------------------------------------------------------------------
\* Properties of negotiation (checked under SpecNegotiate)

IsNegotiate(by) == call.op = "negotiate_protocol" /\ call.by = by

\* C11: when negotiate_protocol(D, t) of the orchestrator has returned, after
\* the one answer of the remote agent that names the protocol p, the Registry
\* maps t to a protocol with id p, the caller's description D, and the version
\* and schema of the answer ("1.0" and {} by default); exactly one
\* on_protocol_negotiated event, for t and that protocol, was emitted, and the
\* call returned that protocol.
C11_NegotiatedThenRegistered ==
    IsNegotiate("bridge") /\ call.pc = "returned" /\ call.message_type # NoType =>
        /\ Cardinality(Positions(log, "response")) = 1
        /\ \A i \in Positions(log, "response") :
             LET answer == log[i].response.json
                 P == Lookup(protocol_handlers, call.message_type)
             IN /\ P # None
                /\ P.id = answer.id
                /\ P.description = call.description
                /\ P.version = Get(answer, "version", "1.0")
                /\ P.schema = (IF "schema" \in DOMAIN answer
                               THEN JsonLoads(answer.schema) ELSE PyDict)
                /\ call.result = P
                /\ Cardinality(Emits("on_protocol_negotiated")) = 1
                /\ \A e \in Emits("on_protocol_negotiated") :
                     /\ i < e
                     /\ log[e].data = [message_type |-> call.message_type,
                                       protocol |-> P]

C11_Witness ==
    /\ IsNegotiate("bridge")
    /\ call.pc = "returned"
    /\ call.message_type = "post"
    /\ \E i \in Positions(log, "response") : log[i].response = NegotiatedP2
    /\ \E e \in call.had : e.key = "post" /\ e.val = ProtoB
    /\ Lookup(protocol_handlers, "post") = Proto("p2", "2.0", "D", PyList)
    /\ callbacks["on_protocol_negotiated"] # <<>>

\* C12: a negotiation without a message type (negotiate_protocol of the adapter,
\* or of the orchestrator with no message type) writes nothing to persisted
\* storage and leaves the Registry as it was: the mapping in memory and on
\* disk is unchanged, no on_protocol_negotiated event is emitted, and the
\* adapter writes no store of its own.
C12_NegotiationPersistsNothing ==
    [][call'.op = "negotiate_protocol" /\ call'.message_type = NoType =>
         /\ protocol_handlers' = protocol_handlers
         /\ protocols_file' = protocols_file
         /\ agora_protocols_file' = agora_protocols_file
         /\ \A i \in DOMAIN log' :
              /\ log'[i].ev \notin {"save", "adapter_save"}
              /\ log'[i].ev = "emit" => log'[i].kind # "on_protocol_negotiated"]_vars

\* C13: the request of send_to_agora(payload, t) carries as its protocol hint
\* the id of the protocol the Registry maps t to, however that protocol came
\* into the Registry, and no hint only if the message has no protocol.
C13_HintIsMappedProtocol ==
    call.op = "send_to_agora" =>
        \A i \in Positions(log, "request") :
            log[i].request.protocolHash =
                (IF Lookup(protocol_handlers, call.message_type) = None THEN JsonNull
                 ELSE Lookup(protocol_handlers, call.message_type).id)

\* C15: a send or a negotiation, of an adapter or of the orchestrator, issues at
\* most one transport request; when the request has failed or was answered with
\* a non-success status the call ends with an error, and no request follows
\* an answer.
C15_AtMostOneRequest ==
    /\ Cardinality(Positions(log, "request")) <= 1
    /\ Cardinality(Positions(log, "response")) <= 1
    /\ \A i \in Positions(log, "response") :
         /\ \A j \in Positions(log, "request") : j < i
         /\ IsFailure(log[i].response) => call.pc = "raised" /\ call.error # NoError

C15_Witness ==
    /\ IsNegotiate("bridge")
    /\ call.pc = "raised"
    /\ Cardinality(Positions(log, "request")) = 1
    /\ \E i \in Positions(log, "response") : log[i].response = ConnectionFailed

\* the texts of the errors the AT-side adapter raises before a request
AtLocalErrors ==
    {"Not authenticated", "Agent does not have WRITE_POSTS capability",
     "Agent does not have READ_PUBLIC capability"}
    \cup {"Unsupported message type: " \o Get(m, "type", "") : m \in Payloads}

\* C14: a send with a message type the Registry does not map, or with no
\* message type, leaves the Registry in memory and on disk as it was, hands the
\* adapter a message with no protocol attached and the caller's content, and
\* fails for no reason of the lookup: a send to Agora issues its request,
\* without a hint, and a send to AT raises at most an error of the AT adapter.
C14_UnmappedTypeIsUnstructured ==
    [][/\ call.pc = "idle"
       /\ call'.op \in {"send_to_agora", "send_to_atproto"}
       /\ (call'.message_type = NoType
           \/ call'.message_type \notin Keys(protocol_handlers))
       => /\ protocol_handlers' = protocol_handlers
          /\ protocols_file' = protocols_file
          /\ Cardinality(Positions(log', "dispatch")) = 1
          /\ \A i \in Positions(log', "dispatch") :
               /\ log'[i].message.protocol = None
               /\ log'[i].message.content = call'.message
          /\ call'.op = "send_to_agora" =>
               /\ call'.pc = "waiting"
               /\ \E i \in Positions(log', "request") :
                    /\ log'[i].request.protocolHash = JsonNull
                    /\ log'[i].request.body = call'.message
          /\ call'.pc = "raised" => call'.error.text \in AtLocalErrors]_vars

C14_Witness ==
    /\ call.op = "send_to_agora"
    /\ call.message_type = "process_feed"
    /\ Keys(protocol_handlers) = {"post"}
    /\ call.pc = "returned"
    /\ \E i \in Positions(log, "dispatch") : log[i].message.protocol = None

---------------------------------------------------------------------------
\* Properties of the exchanges (checked under SpecExchange)

\* a call that ends in AgoraAdapter.send_message
IsAgoraSend ==
    \/ call.op = "send_to_agora"
    \/ call.op = "process_bridge_message" /\ call.adapter = "agora"

\* C16: a send to Agora whose exchange failed ends in an error and returns no
\* body: the error of the connection when the request failed, and an error
\* with the text of the remote end when the HTTP status is not 200 or the
\* status field is not "success"; a body is returned only for HTTP 200 with
\* status "success", and it is the body of the answer.
C16_AgoraFailureCarriesRemoteText ==
    IsAgoraSend =>
        /\ \A i \in Positions(log, "response") :
             LET r == log[i].response
             IN IF r.kind = "failed"
                THEN /\ call.pc = "raised"
                     /\ call.error.text = r.text
                     /\ call.result = None
                ELSE IF r.code # 200
                THEN /\ call.pc = "raised"
                     /\ call.error.text = "Failed to send message: " \o r.text
                     /\ call.result = None
                ELSE IF "status" \notin DOMAIN r.json \/ r.json.status # "success"
                THEN /\ call.pc = "raised"
                     /\ call.result = None
                     /\ "error" \in DOMAIN r.json =>
                          call.error.text = "Failed to send message: " \o r.json.error
                ELSE /\ call.pc = "returned"
                     /\ "body" \in DOMAIN r.json => call.result = r.json.body
        /\ call.pc = "returned" =>
             \E i \in Positions(log, "response") :
                /\ log[i].response.kind = "http"
                /\ log[i].response.code = 200
                /\ Get(log[i].response.json, "status", "None") = "success"

C16_Witness ==
    /\ call.op = "send_to_agora"
    /\ call.pc = "raised"
    /\ call.error.text = "Failed to send message: rejected"
    /\ \E i \in Positions(log, "response") :
         /\ log[i].response.kind = "http"
         /\ log[i].response.code = 200
         /\ log[i].response.json.status = "error"

\* C17: the request of send_to_agora(x) carries x, unmodified, as its body;
\* when the agent answers with status "success" and a body b the call returns
\* exactly b, so that for an agent that echoes the request it returns
\* {"echo": x}.
C17_ReturnsBodyOfAnswer ==
    call.op = "send_to_agora" =>
        /\ \A i \in Positions(log, "request") : log[i].request.body = call.message
        /\ \A i \in Positions(log, "response") :
             LET r == log[i].response
             IN /\ r.kind = "http" /\ r.code = 200
                   /\ Get(r.json, "status", "None") = "success" /\ "body" \in DOMAIN r.json
                     => call.pc = "returned" /\ call.result = r.json.body
                /\ r \in EchoOf(log) =>
                     call.pc = "returned" /\ call.result = [echo |-> call.message]

C17_Witness ==
    /\ call.op = "send_to_agora"
    /\ call.message = TaskPayload
    /\ call.pc = "returned"
    /\ call.result = [echo |-> TaskPayload]
    /\ \E i \in Positions(log, "response") : log[i].response = AgoraEcho(TaskPayload)

\* C18: get_feed of the orchestrator, for an agent with a session and the
\* read-public capability, returns the list in the feed field of the answer of
\* the AT service, unchanged, and ends without an error.
C18_GetFeedReturnsFeed ==
    /\ call.op = "get_feed"
    /\ call.direction = "to_atproto"
    /\ ReadPublic \in capabilities
    /\ session # None
    => \A i \in Positions(log, "response") :
          LET r == log[i].response
          IN r.kind = "http" /\ r.code = 200 /\ "feed" \in DOMAIN r.json
               => /\ call.pc = "returned"
                  /\ call.result = r.json.feed
                  /\ call.error = NoError

\* C19: an adapter handed a message whose target is not its own side raises a
\* ValueError, issues no request, and keeps its session and its cache of
\* protocols as they were.
C19_WrongTargetRefused ==
    [][/\ call.pc = "idle"
       /\ call'.op = "process_bridge_message"
       /\ call'.message.target # call'.adapter
       => /\ call'.pc = "raised"
          /\ call'.error.class = "ValueError"
          /\ call'.error.text = "Message target must be " \o call'.adapter
          /\ Positions(log', "request") = {}
          /\ session' = session
          /\ agora_protocols' = agora_protocols
          /\ agora_protocols_file' = agora_protocols_file]_vars

C19_Witness ==
    /\ call.op = "process_bridge_message"
    /\ call.adapter = "agora"
    /\ call.message.target = "atproto"
    /\ call.message.protocol = ProtoA
    /\ ProtoA.id \in Keys(agora_protocols)
    /\ call.pc = "raised"

\* C20: create post, get profile, get feed and search posts, asked of an
\* adapter that has no session for an agent that holds the capability the
\* operation needs, raise "Not authenticated" and issue no request; the session
\* is still absent afterwards.
C20_NoSessionNoRequest ==
    [][/\ call.pc = "idle"
       /\ session = None
       /\ AskedOperation' \in AtOps
       /\ RequiredCapability(AskedOperation') \in capabilities
       => /\ call'.pc = "raised"
          /\ call'.error.text = "Not authenticated"
          /\ call'.result = None
          /\ Positions(log', "request") = {}
          /\ session' = None]_vars

C20_Witness ==
    /\ call.op = "search_posts"
    /\ call.direction = "adapter"
    /\ session = None
    /\ ReadPublic \in capabilities
    /\ call.pc = "raised"
    /\ call.error.text = "Not authenticated"

---------------------------------------------------------------------------
\* The session of the AT-side adapter: login, refresh_session, set_session

Session2 == [did |-> "did:plc:user", accessJwt |-> "access2", refreshJwt |-> "refresh2"]
Session3 == [did |-> "did:plc:user", accessJwt |-> "access3", refreshJwt |-> "refresh3"]
\* a session without a refresh token
SessionAccessOnly == [did |-> "did:plc:user", accessJwt |-> "access4"]

\* answers of the AT service to createSession and refreshSession: the JSON
\* object of a 200 answer becomes the session as it is
SessionResponses ==
    {ConnectionFailed, HttpError,
     [kind |-> "http", code |-> 200, json |-> Session2],
     [kind |-> "http", code |-> 200, json |-> SessionAccessOnly],
     [kind |-> "http", code |-> 200, json |-> EmptyDict]}

\* mutant: a login that failed drops the session
LoginEffectClearing(response) ==
    IF response.kind = "failed"
    THEN [out |-> Raised(Error("ClientError", response.text)),
          session |-> None, file |-> session_file]
    ELSE IF response.code # 200
    THEN [out |-> Raised(Error("Exception", "Failed to authenticate: " \o response.text)),
          session |-> None, file |-> session_file]
    ELSE [out |-> Returned(response.json), session |-> response.json,
          file |-> SaveSession(response.json, session_file)]

\* ATProtoAdapter.login from the response on: its outcome, the session and the file
LoginEffect(response) ==
    IF response.kind = "failed"
    THEN [out |-> Raised(Error("ClientError", response.text)),
          session |-> session, file |-> session_file]
    ELSE IF response.code # 200
    THEN [out |-> Raised(Error("Exception", "Failed to authenticate: " \o response.text)),
          session |-> session, file |-> session_file]
    ELSE [out |-> Returned(response.json), session |-> response.json,
          file |-> SaveSession(response.json, session_file)]

\* ATProtoAdapter.refresh_session from the response on: a failure is logged and
\* False returned
RefreshEffect(response) ==
    IF response.kind = "failed" \/ response.code # 200
    THEN [out |-> Returned("False"), session |-> session, file |-> session_file]
    ELSE [out |-> Returned("True"), session |-> response.json,
          file |-> SaveSession(response.json, session_file)]

\* a call that concerns the session: what the session and its file were when
\* it was made
SessionCall(op, by, pc, pending, result, error) ==
    [op |-> op, by |-> by, pc |-> pc, direction |-> "session", pending |-> pending,
     result |-> result, error |-> error,
     had |-> [session |-> session, file |-> session_file]]

\* ATProtoAdapter.login (by "adapter") and ProtocolBridge.login_atproto
\* (by "bridge") up to the request
Login(by, handle, password) ==
    /\ Idle
    /\ log' = <<RequestEvent([side |-> "atproto", endpoint |-> "createSession",
                              json |-> [identifier |-> handle, password |-> password]])>>
    /\ call' = SessionCall(IF by = "bridge" THEN "login_atproto" ELSE "login", by,
                           "waiting", "login", None, NoError)
    /\ UNCHANGED <<protocol_handlers, protocols_file, callbacks, built, adapterVars>>

\* the answer arrives; login_atproto signals an error of the adapter with
\* on_error and raises it
LoginFinish(response) ==
    LET r == LoginEffect(response)
    IN /\ call.pc = "waiting"
       /\ call.pending = "login"
       /\ session' = r.session
       /\ session_file' = r.file
       /\ IF r.out.kind = "raise"
          THEN /\ log' = log \o <<ResponseEvent(response)>>
                         \o (IF call.by = "bridge"
                             THEN TriggerCallbacks("on_error",
                                      [error |-> r.out.error.text,
                                       action |-> "login_atproto"])
                             ELSE <<>>)
               /\ call' = [call EXCEPT !.pc = "raised", !.pending = "none",
                                       !.error = r.out.error]
          ELSE /\ log' = log \o <<ResponseEvent(response)>>
               /\ call' = [call EXCEPT !.pc = "returned", !.pending = "none",
                                       !.result = r.out.value]
       /\ UNCHANGED <<protocol_handlers, protocols_file, callbacks, built, capabilities,
                      agora_protocols, agora_protocols_file, agent, config_dir>>

\* ATProtoAdapter.refresh_session up to the request: without a refresh token
\* it returns False at once
RefreshSession ==
    /\ Idle
    /\ IF ~Truthy(session) \/ ~HasKey(session, "refreshJwt")
       THEN /\ log' = <<>>
            /\ call' = SessionCall("refresh_session", "adapter", "returned", "none",
                                   "False", NoError)
       ELSE /\ log' = <<RequestEvent([side |-> "atproto", endpoint |-> "refreshSession",
                                      bearer |-> session.refreshJwt])>>
            /\ call' = SessionCall("refresh_session", "adapter", "waiting", "refresh",
                                   None, NoError)
    /\ UNCHANGED <<protocol_handlers, protocols_file, callbacks, built, adapterVars>>

RefreshSessionFinish(response) ==
    LET r == RefreshEffect(response)
    IN /\ call.pc = "waiting"
       /\ call.pending = "refresh"
       /\ session' = r.session
       /\ session_file' = r.file
       /\ log' = log \o <<ResponseEvent(response)>>
       /\ call' = [call EXCEPT !.pc = "returned", !.pending = "none",
                               !.result = r.out.value]
       /\ UNCHANGED <<protocol_handlers, protocols_file, callbacks, built, capabilities,
                      agora_protocols, agora_protocols_file, agent, config_dir>>

\* ATProtoAdapter.set_session
SetSession(did, access_jwt, refresh_jwt) ==
    /\ Idle
    /\ session' = [did |-> did, accessJwt |-> access_jwt, refreshJwt |-> refresh_jwt]
    /\ session_file' = SaveSession(session', session_file)
    /\ log' = <<>>
    /\ call' = SessionCall("set_session", "adapter", "returned", "none", None, NoError)
    /\ UNCHANGED <<protocol_handlers, protocols_file, callbacks, built, capabilities,
                   agora_protocols, agora_protocols_file, agent, config_dir>>

InitSession ==
    /\ protocols_file = FileMissing
    /\ protocol_handlers = LoadProtocols(protocols_file)
    /\ agora_protocols_file = FileMissing
    /\ agora_protocols = AgoraLoadProtocols(agora_protocols_file)
    /\ callbacks = NoCallbacks
    /\ call = NoCall
    /\ log = <<>>
    /\ built = None
    /\ capabilities \in CapabilitySets
    /\ agent = Own
    /\ config_dir = EmptyDir
    /\ session_file \in {FileMissing, FileInvalid, SessionFile(Session1)}
    /\ session = LoadSession(session_file)

NextSession ==
    \/ \E by \in {"adapter", "bridge"} : Login(by, "alice", "secret")
    \/ \E r \in SessionResponses : LoginFinish(r)
    \/ RefreshSession
    \/ \E r \in SessionResponses : RefreshSessionFinish(r)
    \/ \E x \in {Session3} : SetSession(x.did, x.accessJwt, x.refreshJwt)
    \/ \E op \in AtOps : AdapterCall(op)
    \/ \E r \in AtResponses : AdapterFinish(r)
    \/ SendToAtproto(PostPayload, NoType)
    \/ SendToAgora(PlainPayload, NoType)
    \/ \E r \in {HttpError, AgoraSuccess} \cup AtResponses : SendFinish(r)
    \/ NegotiateProtocol("D", "post")
    \/ \E r \in {HttpError, NegotiatedP1} : NegotiateProtocolFinish(r)
    \/ Idle /\ RegisterProtocol("post", ProtoB)
    \/ Idle /\ Construct
    \/ Deliver

SpecSession == InitSession /\ [][NextSession]_vars

---------------------------------------------------------------------------
\* Properties of the session (checked under SpecSession)

\* C21: an adapter constructed anew for the same agent on the same storage
\* starts with the session the one before held: that of the last login,
\* refresh_session or set_session that succeeded, and none (None or {}) if the
\* one before held none.
C21_SessionSurvivesRestart ==
    [][call'.op = "construct" =>
         IF Truthy(session) \/ Truthy(session') THEN session' = session ELSE TRUE]_vars

\* C22: refresh_session never raises; without a refresh token it returns False
\* and issues no request; when the request fails or is answered with another
\* status than 200 it returns False; whenever it returns False the session in
\* memory and on disk is what it was before the call; it returns True only
\* when the session has been replaced by the answer and saved.
C22_RefreshFailsQuietly ==
    call.op = "refresh_session" =>
        /\ call.pc # "raised"
        /\ ~Truthy(call.had.session) \/ ~HasKey(call.had.session, "refreshJwt") =>
             /\ call.pc = "returned" /\ call.result = "False"
             /\ Positions(log, "request") = {}
        /\ \A i \in Positions(log, "response") :
             (log[i].response.kind = "failed" \/ log[i].response.code # 200)
               => call.result = "False"
        /\ call.pc = "returned" /\ call.result = "False" =>
             session = call.had.session /\ session_file = call.had.file
        /\ call.pc = "returned" /\ call.result = "True" =>
             /\ \E i \in Positions(log, "response") : session = log[i].response.json
             /\ session_file = SessionFile(session)

AllCapabilities == {ReadPublic, WritePosts, GenerateFeeds, ModerateContent, InteractUsers}

\* C27: no step of any operation changes the capability set of the agent, so
\* has_capability(c) answers the same for every c in every state.
C27_CapabilitiesFixed ==
    [][/\ capabilities' = capabilities
       /\ \A c \in AllCapabilities : HasCapability(c)' = HasCapability(c)]_vars

C27_Witness ==
    /\ call.op = "login"
    /\ call.pc = "returned"
    /\ session = Session2
    /\ WritePosts \notin capabilities
    /\ ~HasCapability(WritePosts)

\* C28: the session in memory and its file change only in a step in which a
\* login, a refresh_session or a set_session of the adapter succeeds; every
\* other step of a running instance leaves both as they were.
C28_SessionChangesOnlyBySessionCalls ==
    [][(session' # session \/ session_file' # session_file) /\ call'.op # "construct"
       => /\ call'.op \in {"login", "login_atproto", "refresh_session", "set_session"}
          /\ call'.pc = "returned"
          /\ call'.op = "refresh_session" => call'.result = "True"]_vars

C28_Witness ==
    /\ call.op = "login_atproto"
    /\ call.pc = "raised"
    /\ session = Session1
    /\ session_file = SessionFile(Session1)
    /\ call.had.session = Session1

---------------------------------------------------------------------------
\* Properties of the Registry across operations (checked under SpecNegotiate)

\* the step ends a registration of t with P: register_protocol(t, P), or a
\* negotiate_protocol with message type t that returns P
Registers(c, t) ==
    \/ c.op = "register_protocol" /\ c.message_type = t
    \/ /\ c.op = "negotiate_protocol" /\ c.by = "bridge"
       /\ c.pc = "returned" /\ c.message_type = t

Registered(c) == IF c.op = "register_protocol" THEN c.protocol ELSE c.result

\* C25: in a running process a message type that is mapped stays mapped, its
\* mapping changes only in a step that ends a registration for that type, and
\* then to the protocol registered; and whatever the state, a further
\* registration is possible.
C25_MappingChangesOnlyByRegistration ==
    /\ [](Idle => \A t \in MsgTypes : ENABLED RegisterProtocol(t, ProtoB))
    /\ [][call'.op # "construct" =>
            \A t \in MsgTypes :
               /\ t \in Keys(protocol_handlers) => t \in Keys(protocol_handlers')
               /\ DictGet(protocol_handlers', t) # DictGet(protocol_handlers, t)
                    => Registers(call', t)
               /\ Registers(call', t) /\ call.pc \in {"idle", "waiting"}
                    => DictGet(protocol_handlers', t) = Registered(call')]_vars

C25_Witness ==
    /\ call.op = "register_protocol"
    /\ call.message_type = "post"
    /\ call.had = Proto("p2", "2.0", "D", PyList)
    /\ DictGet(protocol_handlers, "post") = ProtoB
    /\ "process_feed" \in Keys(protocol_handlers)

\* C30: a negotiate_protocol(D, t) of the orchestrator that fails (the request
\* fails, the status is not 200, or the answer names no protocol) raises the
\* error, leaves the mapping in memory and on disk as it was, emits no
\* on_protocol_negotiated event and exactly one on_error event, with the text
\* of the error.
C30_FailedNegotiationChangesNothing ==
    [][/\ call.pc = "waiting"
       /\ call'.op = "negotiate_protocol"
       /\ call'.by = "bridge"
       /\ call'.pc # "waiting"
       => /\ \A i \in Positions(log', "response") :
               (IsFailure(log'[i].response) \/ "id" \notin DOMAIN log'[i].response.json)
                 => call'.pc = "raised"
          /\ call'.pc = "raised" =>
               /\ protocol_handlers' = protocol_handlers
               /\ protocols_file' = protocols_file
               /\ call'.result = None
               /\ call'.error # NoError
               /\ \A i \in DOMAIN log' :
                    /\ log'[i].ev # "save"
                    /\ log'[i].ev = "emit" => log'[i].kind = "on_error"
               /\ Cardinality({i \in Positions(log', "emit") :
                                 log'[i].kind = "on_error"}) = 1
               /\ \A i \in Positions(log', "emit") :
                    log'[i].data.error = call'.error.text]_vars

C30_Witness ==
    /\ IsNegotiate("bridge")
    /\ call.pc = "raised"
    /\ call.message_type = "post"
    /\ \E i \in Positions(log, "response") : log[i].response = NegotiatedNoId
    /\ DictGet(protocol_handlers, "post") = ProtoB
    /\ callbacks["on_error"] # <<>>
    /\ \E i \in Positions(log, "callback") : log[i].kind = "on_error"

---------------------------------------------------------------------------
\* Two negotiate_protocol calls of the orchestrator issued together
\* (asyncio.gather): each is a task of the one event loop. A task runs alone
\* between two awaits: up to the request (session.post), from the answer to
\* the end of the adapter's `async with` block (the protocol is stored in the
\* adapter, then the client session is closed, which is awaited), and from
\* there to the end of ProtocolBridge.negotiate_protocol (register_protocol
\* is not a coroutine: mapping, store and callbacks change in one step).

Task(description, message_type, pc, out, result, error) ==
    [description |-> description, message_type |-> message_type, pc |-> pc,
     out |-> out, result |-> result, error |-> error]

IsGather == call.op = "gather"

\* both tasks start and run to their requests, in the order given
Gather(d1, t1, d2, t2) ==
    /\ Idle
    /\ log' = <<RequestEvent(AgoraNegotiateProtocol(d1).request),
                RequestEvent(AgoraNegotiateProtocol(d2).request)>>
    /\ call' = [op |-> "gather", pc |-> "waiting", direction |-> "negotiate",
                seen |-> protocol_handlers,
                tasks |-> <<Task(d1, t1, "waiting", None, None, NoError),
                            Task(d2, t2, "waiting", None, None, NoError)>>]
    /\ UNCHANGED <<protocol_handlers, protocols_file, callbacks, built, adapterVars>>

\* the answer to the request of task i arrives: AgoraAdapter.negotiate_protocol
\* runs to the close of its client session
GatherAnswer(i, response) ==
    LET task == call.tasks[i]
        r == AgoraNegotiateProtocolFinish(task.description, response)
    IN /\ IsGather
       /\ task.pc = "waiting"
       /\ agora_protocols' = r.adapter.protocols
       /\ agora_protocols_file' = r.adapter.file
       /\ log' = log \o <<ResponseEvent(response)>> \o r.adapter.events
       /\ call' = [call EXCEPT !.tasks[i].pc = "closing", !.tasks[i].out = r.out]
       /\ UNCHANGED <<protocol_handlers, protocols_file, callbacks, built, capabilities,
                      session, session_file, agent, config_dir>>

\* what the call of gather has come to, given its tasks
GatherPc(tasks) ==
    IF \E j \in DOMAIN tasks : tasks[j].pc \in {"waiting", "closing"} THEN "waiting"
    ELSE IF \E j \in DOMAIN tasks : tasks[j].pc = "raised" THEN "raised"
    ELSE "returned"

\* mutant: a task registers into the mapping it saw when it was started
GatherResumeStale(i) ==
    LET task == call.tasks[i]
        h1 == DictSet(call.seen, task.message_type, task.out.value)
        tasks == [call.tasks EXCEPT ![i].pc = "returned", ![i].result = task.out.value]
    IN /\ IsGather
       /\ task.pc = "closing"
       /\ task.out.kind = "return"
       /\ task.message_type # NoType
       /\ protocol_handlers' = h1
       /\ protocols_file' = SaveProtocols(h1)
       /\ log' = log
       /\ call' = [call EXCEPT !.tasks = tasks, !.pc = GatherPc(tasks)]
       /\ UNCHANGED <<callbacks, built, adapterVars>>

\* task i is resumed after the close of the client session:
\* ProtocolBridge.negotiate_protocol runs to its end
GatherResume(i) ==
    LET task == call.tasks[i]
        n == BridgeNegotiated(task.description, task.message_type, task.out)
        tasks == [call.tasks EXCEPT ![i].pc = n.pc, ![i].result = n.result,
                                    ![i].error = n.error]
    IN /\ IsGather
       /\ task.pc = "closing"
       /\ protocol_handlers' = n.handlers
       /\ protocols_file' = n.file
       /\ log' = log \o n.events
       /\ call' = [call EXCEPT !.tasks = tasks, !.pc = GatherPc(tasks)]
       /\ UNCHANGED <<callbacks, built, adapterVars>>

InitConcurrent == InitNegotiate

NextConcurrent ==
    \/ \E d \in Descriptions, t1, t2 \in MsgTypes \cup {NoType} : Gather(d, t1, d, t2)
    \/ \E i \in {1, 2}, r \in NegotiateResponses : GatherAnswer(i, r)
    \/ \E i \in {1, 2} : GatherResume(i)
    \/ Deliver

SpecConcurrent == InitConcurrent /\ [][NextConcurrent]_vars

---------------------------------------------------------------------------
\* Properties of concurrent negotiations (checked under SpecConcurrent)

BothReturned ==
    /\ IsGather
    /\ call.pc = "returned"
    /\ \A j \in {1, 2} : call.tasks[j].message_type # NoType

\* the protocol the store names for message type t
Persisted(t) == DictGet(LoadProtocols(protocols_file), t)

\* C23: when two negotiations issued together for different message types
\* have both returned, in whatever order their answers arrived and their tasks
\* were resumed, the mapping in memory and the store on disk both hold each
\* message type with the protocol its own negotiation returned.
C23_DifferentTypesBothKept ==
    BothReturned /\ call.tasks[1].message_type # call.tasks[2].message_type =>
        \A j \in {1, 2} :
           /\ DictGet(protocol_handlers, call.tasks[j].message_type) = call.tasks[j].result
           /\ Persisted(call.tasks[j].message_type) = call.tasks[j].result

\* the second task's answer arrived and was registered first
C23_Witness ==
    /\ BothReturned
    /\ call.tasks[1].message_type = "post"
    /\ call.tasks[2].message_type = "process_feed"
    /\ call.tasks[1].result.id = "p1"
    /\ call.tasks[2].result.id = "p2"
    /\ Keys(call.seen) = {}
    /\ Keys(protocol_handlers) = {"post", "process_feed"}
    /\ protocol_handlers[1].key = "process_feed"

\* C24: when two negotiations issued together for the same message type t
\* have both returned, t is mapped to the protocol one of them returned, and
\* the store names the same protocol for t as the mapping in memory.
C24_SameTypeLastResumedWins ==
    BothReturned /\ call.tasks[1].message_type = call.tasks[2].message_type =>
        LET t == call.tasks[1].message_type
        IN /\ DictGet(protocol_handlers, t) \in {call.tasks[1].result, call.tasks[2].result}
           /\ Persisted(t) = DictGet(protocol_handlers, t)

SameTypeTwoProtocols ==
    /\ BothReturned
    /\ call.tasks[1].message_type = "post"
    /\ call.tasks[2].message_type = "post"
    /\ call.tasks[1].result.id = "p1"
    /\ call.tasks[2].result.id = "p2"

\* the task started first was resumed last: its protocol is the one kept
C24_Witness == SameTypeTwoProtocols /\ DictGet(protocol_handlers, "post").id = "p1"

\* the other outcome of the same two calls: the task started last is kept
C24_OtherOutcome == SameTypeTwoProtocols /\ DictGet(protocol_handlers, "post").id = "p2"

---------------------------------------------------------------------------
\* Processes started for several agent identities over the same directories.
\* ProtocolBridge gives its adapters no config_dir, so that both keep their
\* files in the default directory whatever the directory of the orchestrator;
\* one directory is modelled for all of them.

\* the directory as it is on disk: the files of the running process included
Dir == [config_dir EXCEPT ![AgoraProtocolsPath(agent)] = agora_protocols_file,
                          ![SessionPath(agent)] = session_file]

\* ProtocolBridge(agora_agent, atproto_agent, ...) in a new process, for the
\* identity a: each adapter loads the file its path names, the orchestrator
\* loads protocols.json
ConstructFor(a) ==
    /\ Idle
    /\ agent' = a
    /\ config_dir' = Dir
    /\ agora_protocols_file' = Dir[AgoraProtocolsPath(a)]
    /\ session_file' = Dir[SessionPath(a)]
    /\ agora_protocols' = AgoraLoadProtocols(agora_protocols_file')
    /\ session' = LoadSession(session_file')
    /\ protocol_handlers' = LoadProtocols(protocols_file)
    /\ callbacks' = NoCallbacks
    /\ call' = [op |-> "construct", pc |-> "returned", after |-> call.op]
    /\ log' = <<>>
    /\ UNCHANGED <<protocols_file, built, capabilities>>

\* what the user of an identity puts into its calls: the descriptions of its
\* protocols and the account of its sessions name it
NameOf(a) == IF a = Own THEN "own" ELSE IF a = Other THEN "other" ELSE "alike"

SessionOf(a) == [did |-> NameOf(a), accessJwt |-> "access", refreshJwt |-> "refresh"]

InitIdentity ==
    /\ protocols_file = FileMissing
    /\ protocol_handlers = LoadProtocols(protocols_file)
    /\ agora_protocols_file = FileMissing
    /\ agora_protocols = AgoraLoadProtocols(agora_protocols_file)
    /\ callbacks = NoCallbacks
    /\ call = NoCall
    /\ log = <<>>
    /\ built = None
    /\ capabilities = {ReadPublic, WritePosts}
    /\ agent \in Identities
    /\ config_dir = EmptyDir
    /\ session_file = FileMissing
    /\ session = LoadSession(session_file)

NextIdentity ==
    \/ \E a \in Identities : ConstructFor(a)
    \/ \E t \in MsgTypes :
          Idle /\ RegisterProtocol(t, Proto("p1", "1.0", NameOf(agent), PyDict))
    \/ \E t \in MsgTypes \cup {NoType} : NegotiateProtocol(NameOf(agent), t)
    \/ \E r \in {HttpError, NegotiatedP1} : NegotiateProtocolFinish(r)
    \/ Login("bridge", NameOf(agent), "secret")
    \/ \E r \in {HttpError, [kind |-> "http", code |-> 200, json |-> SessionOf(agent)]} :
          LoginFinish(r)
    \/ SetSession(NameOf(agent), "access", "refresh")
    \/ Deliver

SpecIdentity == InitIdentity /\ [][NextIdentity]_vars

---------------------------------------------------------------------------
\* Properties of the separation of identities (checked under SpecIdentity)

\* the adapters hold only what was negotiated or logged in under these names
AdaptersHold(names) ==
    /\ \A e \in Items(agora_protocols) : e.val.description \in names
    /\ Truthy(session) => session.did \in names

\* C26: a process started for an identity holds, in the mapping of the
\* orchestrator, in the protocols of the Agora-side adapter and in the session
\* of the AT-side adapter, only what was registered, negotiated or logged in
\* for that identity.
C26_IdentitiesSeparated ==
    call.op = "construct" =>
        /\ \A e \in Items(protocol_handlers) : e.val.description = NameOf(agent)
        /\ AdaptersHold({NameOf(agent)})

\* the same for the adapters alone
C26_AdaptersSeparated == call.op = "construct" => AdaptersHold({NameOf(agent)})

\* the same for the adapters alone, up to identities whose DIDs end alike
\* after the normalisation
C26_DistinctIdsSeparated ==
    call.op = "construct" =>
        AdaptersHold({NameOf(a) : a \in {b \in Identities :
                         /\ AgoraProtocolsPath(b) = AgoraProtocolsPath(agent)
                         /\ SessionPath(b) = SessionPath(agent)}})

---------------------------------------------------------------------------
\* The polling loop of the bot (DelveBot.run): one task of the event loop,
\* interrupted at its awaits only: the search request of check_mentions, the
\* request of each post_message, and the sleep at the end of the iteration.

CHECK_INTERVAL == 60
MAX_MENTIONS_TO_PROCESS == 10
CoolDown == 30
\* the longest answer of the search
MaxPosts == 2
\* the clock (datetime.now) is read up to this value and stays there
MaxTime == 3

\* config["check_interval"]: the default, or whatever JSON value the
\* configuration file gives (config.update(file_config))
CheckIntervals == {[number |-> CHECK_INTERVAL], [number |-> 0], [string |-> "60"],
                   [null |-> "None"]}

\* posts of a search answer: indexedAt is after ("new") or before ("old") the
\* last check, or missing; the author is someone else or the bot
Mention == [uri |-> "at://m", indexedAt |-> "new", author |-> "bob"]
OldPost == [uri |-> "at://o", indexedAt |-> "old", author |-> "bob"]
OwnPost == [uri |-> "at://s", indexedAt |-> "new", author |-> "delve"]
Undated == [uri |-> "at://u", author |-> "bob"]
Posts == {Mention, OldPost, OwnPost, Undated}

PostSeqs == UNION {[1..n -> Posts] : n \in 0..MaxPosts}

SearchResponses ==
    {ConnectionFailed, HttpError, [kind |-> "http", code |-> 200, json |-> [cursor |-> "x"]]}
    \cup {[kind |-> "http", code |-> 200, json |-> [posts |-> ps]] : ps \in PostSeqs}

Min(a, b) == IF a < b THEN a ELSE b

\* an answer longer than MAX_MENTIONS_TO_PROCESS, all of it mentions
LongAnswer == [kind |-> "http", code |-> 200,
               json |-> [posts |-> [i \in 1..(MAX_MENTIONS_TO_PROCESS + 1) |-> Mention]]]

\* check_mentions ends in its except branch: search_posts raised, or
\* fromisoformat did for a post without indexedAt
CheckFailed(out) ==
    \/ out.kind = "raise"
    \/ \E i \in DOMAIN out.value : "indexedAt" \notin DOMAIN out.value[i]

\* mutant: every recent post is returned
RecentPostsAll(out) ==
    IF CheckFailed(out) THEN <<>>
    ELSE SelectSeq(out.value, LAMBDA post : post.indexedAt = "new" /\ post.author # "delve")

\* check_mentions from the answer on: the posts after the last check that are
\* not the bot's own, at most MAX_MENTIONS_TO_PROCESS; any exception gives []
RecentPosts(out) ==
    IF CheckFailed(out) THEN <<>>
    ELSE LET recent == SelectSeq(out.value,
                                 LAMBDA post : post.indexedAt = "new" /\ post.author # "delve")
         IN SubSeq(recent, 1, Min(Len(recent), MAX_MENTIONS_TO_PROCESS))

BotCall(pc, check_interval, mentions, wait, iteration, error) ==
    [op |-> "run", pc |-> pc, direction |-> "bot",
     config |-> [check_interval |-> check_interval], mentions |-> mentions,
     wait |-> wait, iteration |-> iteration, error |-> error,
     last_check_time |-> 0, now |-> 1]

IsRun == call.op = "run"

\* run() is started: the first iteration begins (the parity of the number of
\* iterations begun is kept); last_check_time is a day before the construction
Run(check_interval) ==
    /\ Idle
    /\ call' = BotCall("run_once", check_interval, <<>>, None, 0, NoError)
    /\ log' = <<>>
    /\ UNCHANGED <<protocol_handlers, protocols_file, callbacks, built, adapterVars>>

\* run_once, check_mentions up to the request of search_posts
CheckMentions ==
    LET start == AtStart("search_posts", [q |-> "@delve", limit |-> "25"])
    IN /\ IsRun
       /\ call.pc = "run_once"
       /\ IF ~Truthy(session) \/ start.kind = "raise"
          THEN /\ call' = [call EXCEPT !.pc = "sleep", !.mentions = <<>>]
               /\ log' = log
          ELSE /\ call' = [call EXCEPT !.pc = "searching"]
               /\ log' = log \o <<RequestEvent(start.request)>>
       /\ UNCHANGED <<protocol_handlers, protocols_file, callbacks, built, adapterVars>>

\* where run_once goes on with these mentions left
AfterMentions(mentions) == IF mentions = <<>> THEN "sleep" ELSE "processing"

\* the answer of the search arrives
CheckMentionsFinish(response) ==
    LET out == AtFinish("search_posts", response)
        mentions == RecentPosts(out)
    IN /\ IsRun
       /\ call.pc = "searching"
       /\ call' = [call EXCEPT !.pc = AfterMentions(mentions), !.mentions = mentions,
                               !.last_check_time = IF CheckFailed(out) THEN @
                                                   ELSE call.now]
       /\ log' = log \o <<ResponseEvent(response)>>
       /\ UNCHANGED <<protocol_handlers, protocols_file, callbacks, built, adapterVars>>

\* process_mention for the next mention, up to the request of create_post; an
\* exception of post_message is caught and logged
ProcessMention ==
    LET post == Head(call.mentions)
        start == AtStart("create_post", [text |-> "Hello @" \o post.author, facets |-> "None"])
    IN /\ IsRun
       /\ call.pc = "processing"
       /\ IF start.kind = "raise"
          THEN /\ call' = [call EXCEPT !.pc = AfterMentions(Tail(call.mentions)),
                                       !.mentions = Tail(call.mentions)]
               /\ log' = log
          ELSE /\ call' = [call EXCEPT !.pc = "posting"]
               /\ log' = log \o <<RequestEvent(start.request)>>
       /\ UNCHANGED <<protocol_handlers, protocols_file, callbacks, built, adapterVars>>

\* the answer to the post arrives: whether it was made or not, run_once goes
\* on with the next mention
PostMessageFinish(response) ==
    /\ IsRun
    /\ call.pc = "posting"
    /\ call' = [call EXCEPT !.pc = AfterMentions(Tail(call.mentions)),
                            !.mentions = Tail(call.mentions)]
    /\ log' = log \o <<ResponseEvent(response)>>
    /\ UNCHANGED <<protocol_handlers, protocols_file, callbacks, built, adapterVars>>

\* mutant: the exception of the sleep leaves run()
SleepStopping ==
    LET interval == call.config.check_interval
    IN /\ IsRun
       /\ call.pc = "sleep"
       /\ IF "number" \in DOMAIN interval
          THEN call' = [call EXCEPT !.pc = "sleeping",
                                    !.wait = [seconds |-> interval.number],
                                    !.error = NoError]
          ELSE call' = [call EXCEPT !.pc = "stopped", !.wait = None,
                                    !.error = Error("TypeError", "not a number")]
       /\ log' = log
       /\ UNCHANGED <<protocol_handlers, protocols_file, callbacks, built, adapterVars>>

\* run_once has returned: asyncio.sleep(config["check_interval"]); for a value
\* that is no number it raises, inside the try, and the handler sleeps the
\* cool-down instead
Sleep ==
    LET interval == call.config.check_interval
    IN /\ IsRun
       /\ call.pc = "sleep"
       /\ IF "number" \in DOMAIN interval
          THEN call' = [call EXCEPT !.pc = "sleeping",
                                    !.wait = [seconds |-> interval.number],
                                    !.error = NoError]
          ELSE call' = [call EXCEPT !.pc = "cooling",
                                    !.wait = [seconds |-> CoolDown],
                                    !.error = Error("TypeError", "not a number")]
       /\ log' = log
       /\ UNCHANGED <<protocol_handlers, protocols_file, callbacks, built, adapterVars>>

\* the sleep ends: while True begins the next iteration; time has passed
Wake ==
    /\ IsRun
    /\ call.pc \in {"sleeping", "cooling"}
    /\ call' = [call EXCEPT !.pc = "run_once", !.iteration = 1 - call.iteration,
                            !.mentions = <<>>, !.now = Min(call.now + 1, MaxTime)]
    /\ log' = <<>>
    /\ UNCHANGED <<protocol_handlers, protocols_file, callbacks, built, adapterVars>>

InitBot ==
    /\ protocols_file = FileMissing
    /\ protocol_handlers = LoadProtocols(protocols_file)
    /\ agora_protocols_file = FileMissing
    /\ agora_protocols = AgoraLoadProtocols(agora_protocols_file)
    /\ callbacks = NoCallbacks
    /\ call = NoCall
    /\ log = <<>>
    /\ built = None
    /\ capabilities = {ReadPublic, WritePosts}
    /\ agent = Own
    /\ config_dir = EmptyDir
    /\ session_file \in {FileMissing, SessionFile(Session1)}
    /\ session = LoadSession(session_file)

NextBot ==
    \/ \E v \in CheckIntervals : Run(v)
    \/ CheckMentions
    \/ \E r \in SearchResponses : CheckMentionsFinish(r)
    \/ ProcessMention
    \/ \E r \in {ConnectionFailed, HttpError, [kind |-> "http", code |-> 200, json |-> AtJson]} :
          PostMessageFinish(r)
    \/ Sleep
    \/ Wake

\* every await of the loop ends (a request is answered or fails, a sleep is
\* over) and the event loop then resumes the task
SpecBot == InitBot /\ [][NextBot]_vars /\ WF_vars(NextBot)

---------------------------------------------------------------------------
\* Properties of the polling loop (checked under SpecBot)

RequestsOf(op) == {i \in Positions(log, "request") : log[i].request.endpoint = op}

\* the mentions the search of this iteration has found: its answer is the
\* first of the iteration
Found ==
    IF Positions(log, "response") = {} THEN 0
    ELSE Len(RecentPosts(AtFinish("search_posts", log[2].response)))

\* C29: run() never ends: after an iteration whose sleep raised the loop waits
\* the cool-down of 30 seconds, after any other iteration it waits the
\* configured interval, a next iteration begins only after one of these
\* waits, and given that every await ends a next iteration always begins.
\* Within one iteration nothing is tried again: one search request at most,
\* and one post request at most for each mention found.
C29_NextIterationAlwaysBegins ==
    /\ \A n \in {0, 1} :
          (IsRun /\ call.iteration = n) ~> (IsRun /\ call.iteration = 1 - n)
    /\ [](IsRun =>
            /\ call.pc \in {"run_once", "searching", "processing", "posting", "sleep",
                            "sleeping", "cooling"}
            /\ Cardinality(RequestsOf("search_posts")) <= 1
            /\ call.pc = "run_once" => log = <<>>
            /\ Cardinality(RequestsOf("create_post")) <= Found)
    /\ [][IsRun =>
            /\ IsRun'
            /\ call.pc = "sleep" =>
                 IF "number" \in DOMAIN call.config.check_interval
                 THEN /\ call'.pc = "sleeping"
                      /\ call'.wait = [seconds |-> call.config.check_interval.number]
                 ELSE /\ call'.pc = "cooling"
                      /\ call'.wait = [seconds |-> CoolDown]
            /\ call'.pc \in {"sleeping", "cooling"} => call.pc = "sleep"
            /\ call.pc \in {"sleeping", "cooling"} =>
                 call'.pc = "run_once" /\ call'.iteration # call.iteration
            /\ call'.iteration # call.iteration => call.pc \in {"sleeping", "cooling"}]_vars

\* an iteration has begun after the cool-down that followed a failed one
C29_Witness ==
    /\ IsRun
    /\ call.pc = "searching"
    /\ call.iteration = 1
    /\ call.wait = [seconds |-> CoolDown]
    /\ call.error.class = "TypeError"

\* an iteration has begun after the configured interval
C29_AfterInterval ==
    /\ IsRun
    /\ call.pc = "run_once"
    /\ call.iteration = 0
    /\ call.wait = [seconds |-> CHECK_INTERVAL]

---------------------------------------------------------------------------
\* Properties of events and of sends to the AT side (checked under SpecBridge)

\* C31: the callbacks are kept for the four kinds on_message, on_post,
\* on_protocol_negotiated and on_error and for no other; on(kind, callback)
\* returns for every kind, changes no list when the kind is not one of the
\* four, and otherwise appends the callback to the list of its kind and
\* leaves the other lists alone; every callback invoked is one of the list of
\* the kind of the event.
C31_EventKindsFixed ==
    /\ [](/\ DOMAIN callbacks = {"on_message", "on_post", "on_protocol_negotiated",
                                 "on_error"}
          /\ \A i \in Positions(log, "callback") :
                /\ log[i].kind \in DOMAIN callbacks
                /\ \E j \in DOMAIN callbacks[log[i].kind] :
                      callbacks[log[i].kind][j] = log[i].cb
          /\ \A i \in Positions(log, "emit") :
                Cardinality({j \in Positions(log, "callback") :
                               /\ i < j
                               /\ j <= i + Len(callbacks[log[i].kind])}) =
                Len(callbacks[log[i].kind]))
    /\ [][call'.op = "on" /\ call.pc = "idle" =>
            /\ call'.pc = "returned"
            /\ log' = <<>>
            /\ IF call'.event_type \in {"on_message", "on_post", "on_protocol_negotiated",
                                        "on_error"}
               THEN /\ callbacks'[call'.event_type] =
                          Append(callbacks[call'.event_type], call'.callback)
                    /\ \A k \in DOMAIN callbacks \ {call'.event_type} :
                          callbacks'[k] = callbacks[k]
               ELSE callbacks' = callbacks]_vars

\* on("on_bogus", B) has returned: the one callback registered before is all there is
C31_Witness ==
    /\ call.op = "on"
    /\ call.pc = "returned"
    /\ call.event_type = UnknownKind
    /\ call.callback = "B"
    /\ callbacks["on_message"] = <<"A">>
    /\ TotalCallbacks = 1

\* a send to the AT side that is a post: by its message type or by its content
IsPost ==
    /\ call.op \in {"send_to_atproto", "post_to_atproto"}
    /\ call.message # None
    /\ (call.message_type = "post" \/ Get(call.message, "type", "None") = "post")

\* C33: a send to the AT side that is a post and has returned has emitted
\* on_post exactly once, after the answer of the transport and after its
\* on_message event, with the text of the post and the value returned; no
\* other call emits on_post: not a send that failed (it emits on_error), not
\* a send to the Agora side, not a send that is no post.
C33_OnPostOncePerPost ==
    /\ IsPost /\ call.pc = "returned" =>
         /\ Cardinality(Emits("on_post")) = 1
         /\ \A i \in Emits("on_post") :
              /\ \A j \in Emits("on_message") \cup Positions(log, "response")
                          \cup Positions(log, "request") : j < i
              /\ Positions(log, "response") # {}
              /\ log[i].data = [content |-> Get(call.message, "text", ""),
                                response |-> call.result]
         /\ Emits("on_error") = {}
    /\ ~(IsPost /\ call.pc = "returned") =>
         /\ Emits("on_post") = {}
         /\ \A i \in Positions(log, "callback") : log[i].kind # "on_post"
    /\ IsPost /\ call.pc = "raised" /\ Positions(log, "dispatch") # {} =>
         Cardinality(Emits("on_error")) = 1

\* a post by its content only, sent without a message type
C33_Witness ==
    /\ call.op = "send_to_atproto"
    /\ call.message_type = NoType
    /\ call.message = PostPayload
    /\ call.pc = "returned"
    /\ callbacks["on_post"] # <<>>
    /\ \E i \in Positions(log, "callback") : log[i].kind = "on_post"

\* C34: send_to_atproto with content whose type is none of post, get_feed,
\* get_profile and search_posts (or that has no type) raises a ValueError
\* without a transport request, whatever protocol its message type is mapped
\* to: on_message was emitted, then the message handed over, then on_error
\* emitted once with the text of the error.
C34_UnsupportedTypeRefused ==
    /\ call.op = "send_to_atproto"
    /\ Get(call.message, "type", "") \notin {"post", "get_feed", "get_profile",
                                              "search_posts"}
    => /\ call.pc = "raised"
       /\ call.error = Error("ValueError", "Unsupported message type: "
                                           \o Get(call.message, "type", ""))
       /\ Positions(log, "request") = {}
       /\ Positions(log, "response") = {}
       /\ Cardinality(Emits("on_message")) = 1
       /\ Cardinality(Emits("on_error")) = 1
       /\ Emits("on_post") = {}
       /\ \A i \in Emits("on_message"), j \in Positions(log, "dispatch"),
             k \in Emits("on_error") :
             /\ i < j /\ j < k
             /\ log[k].data.error = call.error.text

\* content without a type, sent under a message type that is mapped
C34_Witness ==
    /\ call.op = "send_to_atproto"
    /\ call.message = PlainPayload
    /\ call.message_type = "post"
    /\ Lookup(protocol_handlers, "post") = ProtoA
    /\ \E i \in Positions(log, "dispatch") : log[i].message.protocol = ProtoA
    /\ call.pc = "raised"

\* C35: post_to_atproto for an agent without write-posts raises before
\* anything else happens: no event is emitted, no callback invoked, no message
\* built or handed over; send_to_atproto with a post for the same agent is
\* refused by the adapter: after on_message and the handing over, followed by
\* exactly one on_error, without a transport request.
C35_DenialBeforeOrAfterEvents ==
    /\ call.op = "post_to_atproto" /\ WritePosts \notin capabilities =>
         /\ call.pc = "raised"
         /\ call.error = Error("ValueError", "Agent does not have WRITE_POSTS capability")
         /\ log = <<>>
    /\ /\ call.op = "send_to_atproto"
       /\ Get(call.message, "type", "") = "post"
       /\ WritePosts \notin capabilities
       => /\ call.pc = "raised"
          /\ call.error = Error("Exception", "Agent does not have WRITE_POSTS capability")
          /\ Cardinality(Emits("on_message")) = 1
          /\ Cardinality(Positions(log, "dispatch")) = 1
          /\ Cardinality(Emits("on_error")) = 1
          /\ Positions(log, "request") = {}
          /\ \A i \in Emits("on_message"), j \in Positions(log, "dispatch"),
                k \in Emits("on_error") : i < j /\ j < k

C35_Witness ==
    /\ call.op = "post_to_atproto"
    /\ WritePosts \notin capabilities
    /\ call.pc = "raised"
    /\ callbacks["on_message"] # <<>>
    /\ callbacks["on_error"] # <<>>
    /\ log = <<>>

\* the same denial through send_to_atproto
C35_ThroughSend ==
    /\ call.op = "send_to_atproto"
    /\ call.message = PostPayload
    /\ WritePosts \notin capabilities
    /\ call.pc = "raised"
    /\ \E i \in Positions(log, "callback") : log[i].kind = "on_message"
    /\ \E i \in Positions(log, "callback") : log[i].kind = "on_error"

---------------------------------------------------------------------------
\* Properties of login (checked under SpecSession)

IsLogin == call.op \in {"login", "login_atproto"}

\* a login that failed: raised, session and file as before, on_error once
\* through the orchestrator and no event through the adapter
LoginFailureLeavesSession ==
    IsLogin =>
        /\ \A i \in Positions(log, "response") :
             (log[i].response.kind = "failed" \/ log[i].response.code # 200)
               => call.pc = "raised"
        /\ call.pc = "raised" =>
             /\ session = call.had.session
             /\ session_file = call.had.file
             /\ call.result = None
             /\ IF call.by = "bridge"
                THEN /\ Cardinality(Positions(log, "emit")) = 1
                     /\ \A i \in Positions(log, "emit") :
                          /\ log[i].kind = "on_error"
                          /\ log[i].data.error = call.error.text
                ELSE Positions(log, "emit") = {}

\* C36: a login that failed (no connection, or a status other than 200)
\* raises and leaves the session in memory and on disk as it was, with
\* exactly one on_error event when it was made through the orchestrator; a
\* login that has returned has made the answer of the service the session in
\* memory and has saved it.
C36_LoginFailsCleanlyAndSaves ==
    /\ LoginFailureLeavesSession
    /\ IsLogin /\ call.pc = "returned" =>
         /\ \E i \in Positions(log, "response") : session = log[i].response.json
         /\ call.result = session
         /\ session_file = SessionFile(session)

\* the same, for answers that are not an empty object
C36_NonEmptyAnswerSaved ==
    /\ LoginFailureLeavesSession
    /\ IsLogin /\ call.pc = "returned" /\ Truthy(session) =>
         /\ \E i \in Positions(log, "response") : session = log[i].response.json
         /\ call.result = session
         /\ session_file = SessionFile(session)

---------------------------------------------------------------------------
\* check_mentions with answers of every length: the loop of the bot with the
\* default interval and posts that are made

NextMentions ==
    \/ Run([number |-> CHECK_INTERVAL])
    \/ CheckMentions
    \/ \E r \in SearchResponses \cup {LongAnswer} : CheckMentionsFinish(r)
    \/ ProcessMention
    \/ PostMessageFinish([kind |-> "http", code |-> 200, json |-> AtJson])
    \/ Sleep
    \/ Wake

SpecMentions == InitBot /\ [][NextMentions]_vars

\* C37: check_mentions never raises (run_once always goes on, with the
\* mentions or to its end) and returns at most MAX_MENTIONS_TO_PROCESS posts;
\* without a session it returns [] and issues no request; last_check_time
\* becomes the time of the check when search and filter succeeded, stays as
\* it is when the check failed or there was no session, is changed by nothing
\* else, and never moves backwards.
C37_CheckMentionsBounded ==
    /\ [](IsRun => /\ Len(call.mentions) <= MAX_MENTIONS_TO_PROCESS
                   /\ call.last_check_time <= call.now)
    /\ [][IsRun =>
            /\ IsRun'
            /\ call'.last_check_time >= call.last_check_time
            /\ call.pc = "run_once" =>
                 /\ call'.last_check_time = call.last_check_time
                 /\ ~Truthy(session) =>
                      /\ call'.pc = "sleep"
                      /\ call'.mentions = <<>>
                      /\ log' = log
            /\ call.pc = "searching" =>
                 /\ call'.pc \in {"processing", "sleep"}
                 /\ call'.pc = "processing" <=> call'.mentions # <<>>
                 /\ IF CheckFailed(AtFinish("search_posts", log'[Len(log')].response))
                    THEN /\ call'.mentions = <<>>
                         /\ call'.last_check_time = call.last_check_time
                    ELSE call'.last_check_time = call.now
            /\ call.pc \notin {"run_once", "searching"} =>
                 call'.last_check_time = call.last_check_time]_vars

\* an answer of eleven mentions: ten are returned, the time of the check is kept
C37_Witness ==
    /\ IsRun
    /\ call.pc = "processing"
    /\ log[2].response = LongAnswer
    /\ Len(call.mentions) = MAX_MENTIONS_TO_PROCESS
    /\ call.now = 2
    /\ call.last_check_time = 2

\* a check that failed, after one that succeeded: the time is that of the earlier one
C37_FailedKeepsTime ==
    /\ IsRun
    /\ call.pc = "sleep"
    /\ call.now = 3
    /\ call.last_check_time = 2
    /\ Positions(log, "response") # {}

---------------------------------------------------------------------------
\* One process that negotiates and sends to the Agora side: the cache of the
\* adapter (self.protocols) and the hints of its requests

\* a 200 answer whose id is the empty string
NegotiatedEmptyId == [kind |-> "http", code |-> 200, json |-> [id |-> "", schema |-> "{}"]]

NextCache ==
    \/ \E t \in MsgTypes : Idle /\ RegisterProtocol(t, ProtoB)
    \/ \E d \in Descriptions, t \in MsgTypes \cup {NoType} : NegotiateProtocol(d, t)
    \/ \E r \in NegotiateResponses \cup {NegotiatedEmptyId} : NegotiateProtocolFinish(r)
    \/ \E d \in Descriptions : AgoraNegotiate(d)
    \/ \E r \in NegotiateResponses \cup {NegotiatedEmptyId} : AgoraNegotiateFinish(r)
    \/ \E t \in MsgTypes \cup {NoType} : SendToAgora(PlainPayload, t)
    \/ \E r \in {HttpError, AgoraSuccess} : SendFinish(r)
    \/ Deliver

SpecCache == InitNegotiate /\ [][NextCache]_vars

\* the step ends a negotiation that returns a protocol
NegotiationReturns ==
    /\ call.pc = "waiting"
    /\ call'.op = "negotiate_protocol"
    /\ call'.pc = "returned"

\* the step starts a send_to_agora whose message type is mapped to a protocol
\* that is in the cache of the adapter under its id
SendOfCached ==
    /\ call.pc = "idle"
    /\ call'.op = "send_to_agora"
    /\ Lookup(protocol_handlers, call'.message_type) # None
    /\ Lookup(protocol_handlers, call'.message_type).id \in Keys(agora_protocols)

\* C38: no step takes an id out of the cache of the Agora-side adapter; a
\* negotiation that returns a protocol has put it into the cache under its
\* id; and a send_to_agora whose message type is mapped to a protocol with an
\* id of the cache carries that id as the hint of its request.
C38_NegotiatedStaysHinted ==
    [][/\ Keys(agora_protocols) \subseteq Keys(agora_protocols')
       /\ NegotiationReturns =>
            /\ call'.result.id \in Keys(agora_protocols')
            /\ DictGet(agora_protocols', call'.result.id) = call'.result
       /\ SendOfCached =>
            \A i \in Positions(log', "request") :
               log'[i].request.protocolHash =
                  Lookup(protocol_handlers, call'.message_type).id]_vars

\* the same for protocols whose id is not the empty string
C38_NonEmptyIdsHinted ==
    [][/\ Keys(agora_protocols) \subseteq Keys(agora_protocols')
       /\ NegotiationReturns =>
            /\ call'.result.id \in Keys(agora_protocols')
            /\ DictGet(agora_protocols', call'.result.id) = call'.result
       /\ SendOfCached /\ Lookup(protocol_handlers, call'.message_type).id # "" =>
            \A i \in Positions(log', "request") :
               log'[i].request.protocolHash =
                  Lookup(protocol_handlers, call'.message_type).id]_vars

---------------------------------------------------------------------------
\* A send that is suspended on its request while other tasks of the event
\* loop run: register_protocol called by another task, and a negotiation of
\* another task (kept in the field `other` of the call) that goes on. The
\* log holds the events of the send; those of the other task are left out.

IsSendWaiting ==
    /\ call.op \in {"send_to_agora", "send_to_atproto"}
    /\ call.pc = "waiting"

\* mutant: the message in flight shares the protocol with the Registry, so that
\* a registration of its message type shows in it
KeepInFlightShared(l, message_type, protocol) ==
    [i \in DOMAIN l |->
        IF l[i].ev = "dispatch" /\ l[i].message.meta.message_type = message_type
        THEN [l[i] EXCEPT !.message.protocol = protocol]
        ELSE l[i]]

\* the BridgeMessage of a send holds the protocol looked up when it was
\* built; register_protocol rebinds the key of the dict and touches no message
KeepInFlight(l, message_type, protocol) == l

\* another task calls register_protocol while the send waits
RegisterMeanwhile(message_type, protocol) ==
    LET h1 == DictSet(protocol_handlers, message_type, protocol)
        f1 == SaveProtocols(h1)
    IN /\ IsSendWaiting
       /\ protocol_handlers' = h1
       /\ protocols_file' = f1
       /\ log' = KeepInFlight(log, message_type, protocol)
       /\ UNCHANGED <<callbacks, call, built, adapterVars>>

\* another task calls negotiate_protocol while the send waits
NegotiateMeanwhile(description, message_type) ==
    /\ IsSendWaiting
    /\ "other" \notin DOMAIN call
    /\ call' = [other |-> Task(description, message_type, "waiting", None, None, NoError)]
               @@ call
    /\ UNCHANGED <<protocol_handlers, protocols_file, callbacks, log, built, adapterVars>>

\* the answer to the other task's request arrives: the adapter stores the protocol
MeanwhileAnswer(response) ==
    LET r == AgoraNegotiateProtocolFinish(call.other.description, response)
    IN /\ "other" \in DOMAIN call
       /\ call.other.pc = "waiting"
       /\ agora_protocols' = r.adapter.protocols
       /\ agora_protocols_file' = r.adapter.file
       /\ call' = [call EXCEPT !.other.pc = "closing", !.other.out = r.out]
       /\ UNCHANGED <<protocol_handlers, protocols_file, callbacks, log, built,
                      capabilities, session, session_file, agent, config_dir>>

\* the other task is resumed: its negotiate_protocol registers and ends
MeanwhileResume ==
    LET task == call.other
        n == BridgeNegotiated(task.description, task.message_type, task.out)
    IN /\ "other" \in DOMAIN call
       /\ task.pc = "closing"
       /\ protocol_handlers' = n.handlers
       /\ protocols_file' = n.file
       /\ log' = KeepInFlight(log, task.message_type, n.result)
       /\ call' = [call EXCEPT !.other.pc = n.pc, !.other.result = n.result,
                               !.other.error = n.error]
       /\ UNCHANGED <<callbacks, built, adapterVars>>

NextInflight ==
    \/ \E t \in MsgTypes \cup {NoType} : SendToAgora(PlainPayload, t)
    \/ \E t \in MsgTypes \cup {NoType} : SendToAtproto(PostPayload, t)
    \/ \E r \in {HttpError, AgoraSuccess} \cup AtResponses : SendFinish(r)
    \/ \E t \in MsgTypes : RegisterMeanwhile(t, ProtoB)
    \/ \E d \in Descriptions, t \in MsgTypes : NegotiateMeanwhile(d, t)
    \/ \E r \in NegotiateResponses : MeanwhileAnswer(r)
    \/ MeanwhileResume
    \/ Deliver

SpecInflight == InitNegotiate /\ [][NextInflight]_vars

---------------------------------------------------------------------------
\* Properties of a send in flight (checked under SpecInflight)

\* the hint send_message gives for the protocol p, with the cache c
HintOf(p, c) ==
    IF p # None /\ p.id \in Keys(c) /\ p.id # "" THEN p.id ELSE JsonNull

\* C32: the message a send builds holds the protocol the Registry maps its
\* message type to when the send is called, and the hint of its request is
\* taken from that protocol; while the send waits for the answer, and when
\* the answer arrives, the message handed over, the request and the content
\* stay what they were, whatever is registered or negotiated meanwhile.
C32_InFlightKeepsProtocol ==
    [][/\ call.pc = "idle" /\ call'.op \in {"send_to_agora", "send_to_atproto"} =>
            /\ \A i \in Positions(log', "dispatch") :
                  /\ log'[i].message.protocol =
                        Lookup(protocol_handlers, call'.message_type)
                  /\ log'[i].message.content = call'.message
            /\ call'.op = "send_to_agora" =>
                  \A i \in Positions(log', "request") :
                     log'[i].request.protocolHash =
                        HintOf(Lookup(protocol_handlers, call'.message_type),
                               agora_protocols)
       /\ call.pc = "waiting" /\ call'.op = call.op =>
            /\ call'.message = call.message
            /\ call'.message_type = call.message_type
            /\ Positions(log', "dispatch") = Positions(log, "dispatch")
            /\ Positions(log', "request") = Positions(log, "request")
            /\ \A i \in Positions(log, "dispatch") \cup Positions(log, "request") :
                  log'[i] = log[i]]_vars

\* a send of type post has returned; post was mapped to another protocol while
\* it waited, and its message and hint are those of the call
C32_Witness ==
    /\ call.op = "send_to_agora"
    /\ call.pc = "returned"
    /\ call.message_type = "post"
    /\ Lookup(protocol_handlers, "post") = ProtoB
    /\ \E i \in Positions(log, "dispatch") : log[i].message.protocol = ProtoA
    /\ \E i \in Positions(log, "request") : log[i].request.protocolHash = ProtoA.id

\* the same with a negotiation that ended while the send waited
C32_Renegotiated ==
    /\ call.op = "send_to_agora"
    /\ call.pc = "returned"
    /\ call.message_type = "post"
    /\ "other" \in DOMAIN call
    /\ call.other.pc = "returned"
    /\ call.other.message_type = "post"
    /\ Lookup(protocol_handlers, "post") = call.other.result
    /\ \E i \in Positions(log, "dispatch") : log[i].message.protocol = ProtoA

====
